---- MODULE Spec2Model ----
(***************************************************************************)
(* A model of django-pglock (src/pglock/core.py): the lock_timeout scope,  *)
(* the advisory-lock protocol, the table locker and the prioritize watcher, *)
(* together with the part of the backend session (transaction status,      *)
(* savepoints, the lock_timeout setting) that the code relies on.          *)
(***************************************************************************)
EXTENDS Integers, Sequences, FiniteSets, TLC

VARIABLES
    tl,      \* tl[t]: _timeout.value of thread t (core.py:48), PyNone or milliseconds
    frames,  \* frames[t]: the context managers thread t has open, outermost first
    exc,     \* exc[t]: the exception propagating in thread t, "none" when it runs normally
    guc,     \* guc[t][a]: lock_timeout of the session thread t has on alias a
    txst,    \* txst[t][a]: transaction status of that session: "idle", "intrans", "inerror"
    sp,      \* sp[t][a]: its open transaction levels (atomic blocks), outermost first
    held,    \* held[t][a][key]: how often that session holds session-level advisory lock key
    pend,    \* pend[t]: the call of thread t that waits for a lock, kind "none" when none does
    dec,     \* the advisory object of the decorated function, which all its calls share
    sent,    \* the statements the last step sent to the backend, in order
    last,    \* the call the last step completed and its outcome, NoCall when it completed none
    timer,   \* the killer thread of pglock.prioritize (core.py:604-608), pc "idle" when there is none
    now,     \* the time, in ticks of TickMs milliseconds
    settings \* django.conf.settings: the dict PGLOCK_CONFIGS (config.py:38-40)

vars == <<tl, frames, exc, guc, txst, sp, held, pend, dec, sent, last, timer, now,
         settings>>

----------------------------------------------------------------------------
(* Values *)

\* Python's None as the value of _timeout.value (core.py:156).
PyNone == -1

\* The value lock_timeout takes when it is reset: set_config('lock_timeout', NULL, false)
\* (core.py:171) puts the setting back to the session's reset value.
ResetVal == -2

Threads == {"T1", "T2"}
Aliases == {"default", "other"}

\* The timeout arguments of the calls: a timedelta in microseconds (an int or
\* float of seconds is turned into one, core.py:84-85), None, the _unset
\* marker (core.py:54) or a value of another type.
Td(us) == [kind |-> "td", us |-> us]
TNone == [kind |-> "none", us |-> 0]
_unset == [kind |-> "unset", us |-> 0]
TStr == [kind |-> "str", us |-> 0]

\* Python ints from -2^63 to 2^63 - 1: hi * 2^32 + lo[1] * 2^16 + lo[2], with
\* hi from -2^31 to 2^31 - 1 and the halves of lo from 0 to 65535.
PyInt(hi, l1, l0) == [hi |-> hi, lo |-> <<l1, l0>>]
Small(n) == PyInt(0, 0, n)

NoPend == [kind |-> "none"]
NoCall == [op |-> "none"]
NoTimer ==
    [pc |-> "idle", periodic |-> FALSE, interval |-> 0, pid |-> "T1", a |-> "default",
     se |-> [cls |-> "NoneType", inst |-> TRUE, filters |-> "all"],
     exc |-> "unset", finished |-> FALSE, due |-> 0, start |-> 0, fired |-> 0]

\* Lock identifiers as the callers pass them: an int, a string (the
\* sequence of its code points), None, or a value that is neither an int
\* nor a string.
LId(v) == [kind |-> "int", v |-> v]
LStr(v) == [kind |-> "str", v |-> v]
LNone == [kind |-> "none", v |-> 0]
LOther == [kind |-> "other", v |-> 0]

\* Bounds of the model: the nesting depth of a thread's blocks, and how often
\* a session may hold one advisory key before it stops asking for more.
MaxDepth == 4
MaxHolds == 2

\* The length of a tick of the clock, in milliseconds.
TickMs == 100

\* The durations the modelled callers pass, in microseconds.
Durations == {1000, 2500}

Top(s) == s[Len(s)]
Pop(s) == SubSeq(s, 1, Len(s) - 1)

----------------------------------------------------------------------------
(* The backend session, as the code uses it *)

\* A statement sent to the backend.
Stmt(t, a, sql, arg) == [t |-> t, a |-> a, sql |-> sql, arg |-> arg]

\* One transaction level: the lock_timeout in force when it began, which a
\* rollback of the level restores, and the transaction-scoped locks taken in
\* it (xl: advisory keys, rl: relations). For the properties: skipped/skipPre
\* record the outermost timeout scope of the level whose restore statement
\* was skipped, with the lock_timeout that was in force before that scope was
\* entered; skipAll holds that value for every such scope of the level.
Level(g) ==
    [g |-> g, xl |-> {}, rl |-> {},
     skipped |-> FALSE, skipPre |-> 0, skipAll |-> {}]

\* connections[using].in_atomic_block (core.py:270)
in_transaction(t, a) == Len(sp[t][a]) > 0

\* What one call works on: the calling thread's _timeout.value and exception
\* in flight, and the state of its session on alias a. The operators below
\* take such a record through the steps of a call; Apply writes it back.
Ctx(t, a) ==
    [t |-> t, a |-> a, tl |-> tl[t], guc |-> guc[t][a], txst |-> txst[t][a],
     sp |-> sp[t][a], held |-> held[t][a], err |-> exc[t], sent |-> <<>>,
     last |-> NoCall]

\* A write-back under which _timeout is one global shared by all threads.
Apply_mut(c) ==
    /\ tl' = [t \in Threads |-> c.tl]
    /\ guc' = [guc EXCEPT ![c.t][c.a] = c.guc]
    /\ txst' = [txst EXCEPT ![c.t][c.a] = c.txst]
    /\ sp' = [sp EXCEPT ![c.t][c.a] = c.sp]
    /\ held' = [held EXCEPT ![c.t][c.a] = c.held]
    /\ exc' = [exc EXCEPT ![c.t] = c.err]
    /\ sent' = c.sent
    /\ last' = c.last

Apply(c) ==
    /\ tl' = [tl EXCEPT ![c.t] = c.tl]
    /\ guc' = [guc EXCEPT ![c.t][c.a] = c.guc]
    /\ txst' = [txst EXCEPT ![c.t][c.a] = c.txst]
    /\ sp' = [sp EXCEPT ![c.t][c.a] = c.sp]
    /\ held' = [held EXCEPT ![c.t][c.a] = c.held]
    /\ exc' = [exc EXCEPT ![c.t] = c.err]
    /\ sent' = c.sent
    /\ last' = c.last

\* The session sends a statement: cursor.execute.
Send(c, sql, arg) == [c EXCEPT !.sent = Append(@, Stmt(c.t, c.a, sql, arg))]

\* The backend refuses every statement of an aborted transaction
\* ("current transaction is aborted"), which Django raises as InternalError;
\* on a connection the backend has terminated ("closed") every statement
\* fails with "terminating connection due to administrator command", an
\* OperationalError.
Refused(c) == c.txst \in {"inerror", "closed"}
RefusalError(c) == IF c.txst = "closed" THEN "AdminShutdown" ELSE "InternalError"

\* A statement fails in the backend with error e: inside a transaction the
\* transaction is aborted.
Fail(c, e) ==
    [c EXCEPT !.err = e,
              !.txst = IF Len(c.sp) > 0 /\ @ # "closed" THEN "inerror" ELSE @]

\* The thread runs the code of its innermost block: no exception is
\* propagating, no call is blocked, and when that block is a call of a
\* decorated function, the function was let run (core.py:278-279).
Running(t) ==
    /\ exc[t] = "none"
    /\ pend[t].kind = "none"
    /\ frames[t] # <<>> /\ Top(frames[t]).k = "advisory" /\ Top(frames[t]).func
           => Top(frames[t]).ran

TimeoutFrame(a, old, val, pre) ==
    [k |-> "timeout", a |-> a, old |-> old, val |-> val, pre |-> pre]

AtomicFrame(a) == [k |-> "atomic", a |-> a]

----------------------------------------------------------------------------
(* django.db.transaction.atomic, as core.py and its callers use it *)

\* Entering an atomic block: a transaction, or a savepoint inside one. The
\* SAVEPOINT statement is refused while the transaction is aborted.
at_enter(c) ==
    IF Refused(c)
    THEN [Send(c, "savepoint", 0) EXCEPT !.err = RefusalError(c)]
    ELSE [(IF Len(c.sp) > 0 THEN Send(c, "savepoint", 0) ELSE c)
             EXCEPT !.sp = Append(@, Level(c.guc)), !.txst = "intrans"]

\* Leaving the innermost atomic block with c.err in flight. With an exception,
\* or when the transaction is aborted, the level is rolled back, which restores
\* the lock_timeout it began with and drops the locks taken in it; releasing a
\* savepoint of an aborted transaction raises after that rollback. A released
\* savepoint hands its locks to the level around it; the end of the
\* transaction drops them all. On a terminated connection neither COMMIT nor
\* ROLLBACK gets through: the block ends with the error, and the outermost
\* one leaves the connection to be opened anew.
at_exit(c) ==
    IF c.txst = "closed"
    THEN [Send(c, IF c.err # "none" THEN "rollback" ELSE "commit", 0) EXCEPT
             !.sp = Pop(c.sp),
             !.txst = IF Len(c.sp) = 1 THEN "idle" ELSE "closed",
             !.err = IF @ = "none" THEN "AdminShutdown" ELSE @]
    ELSE
    LET lvl == Top(c.sp)
        outer == Len(c.sp) = 1
        rollback == c.err # "none" \/ c.txst = "inerror"
        rest == Pop(c.sp)
        merged == IF rollback \/ outer THEN rest
                  ELSE [rest EXCEPT ![Len(rest)] =
                           [@ EXCEPT !.xl = @ \cup lvl.xl, !.rl = @ \cup lvl.rl]]
    IN [Send(c, IF rollback THEN "rollback" ELSE "commit", 0) EXCEPT
           !.sp = merged,
           !.txst = IF outer THEN "idle" ELSE "intrans",
           !.guc = IF rollback THEN lvl.g ELSE @,
           !.err = IF @ = "none" /\ c.txst = "inerror" /\ ~outer
                   THEN "InternalError" ELSE @]

----------------------------------------------------------------------------
(* pglock.timeout *)

_cast_timeout_mut(timeout) == timeout

\* core.py:82-93. "TypeError" stands for the raise.
_cast_timeout(timeout) ==
    IF timeout.kind \in {"none", "unset"} THEN timeout
    ELSE IF timeout.kind # "td" THEN [kind |-> "TypeError", us |-> 0]
    ELSE IF timeout.us < 1000 THEN Td(0)
    ELSE timeout

\* core.py:139-153: what the argument checks of lock_timeout raise.
lock_timeout_check(timeout) ==
    IF timeout.kind = "unset" THEN "ValueError"
    ELSE IF timeout.kind = "none" THEN "ok"
    ELSE LET c == _cast_timeout(timeout) IN
         IF c.kind = "TypeError" THEN "TypeError"
         ELSE IF c.us = 0 THEN "ValueError"
         ELSE "ok"

\* Python's float is the IEEE 754 double: 53 significant bits, results
\* rounded to nearest, ties to even. A double is kept here as the sequence
\* of the bits of its significand, most significant first, with frac the
\* number of them that stand after the binary point.

\* The binary digits of the natural number n < 2^30, and the number of a
\* sequence of binary digits.
Bits(n) ==
    LET len == CHOOSE l \in 0..30 : 2^l > n /\ (l = 0 \/ 2^(l - 1) <= n)
    IN SubSeq([i \in 1..30 |-> (n \div 2^(30 - i)) % 2], 31 - len, 30)

RECURSIVE ToNat(_)
ToNat(b) ==
    IF Len(b) = 0 THEN 0
    ELSE IF Len(b) = 1 THEN b[1]
    ELSE ToNat(SubSeq(b, 1, Len(b) \div 2)) * 2^(Len(b) - Len(b) \div 2)
           + ToNat(SubSeq(b, Len(b) \div 2 + 1, Len(b)))

\* Long arithmetic works on ten binary digits at a time. The digits b as
\* numbers below 1024, taken from the right; ten digits for each such number;
\* and the digits of a sequence of them without leading zeros.
Limbs(b) ==
    LET n == (Len(b) + 9) \div 10 IN
    SubSeq([j \in 1..n |->
               ToNat(SubSeq(b, IF Len(b) - 10 * (n - j) - 9 < 1 THEN 1
                               ELSE Len(b) - 10 * (n - j) - 9,
                            Len(b) - 10 * (n - j)))], 1, n)

Expand(l) ==
    SubSeq([i \in 1..10 * Len(l) |->
               (l[(i - 1) \div 10 + 1] \div 2^(9 - ((i - 1) % 10))) % 2], 1, 10 * Len(l))

RECURSIVE Digits(_)
Digits(l) ==
    IF l = <<>> THEN <<>>
    ELSE IF l[1] = 0 THEN Digits(Tail(l))
    ELSE Bits(l[1]) \o Expand(Tail(l))

\* Long division: n times the next ten binary digits of r / d, for r < d,
\* followed by a number that is 1 when digits other than 0 come after them.
RECURSIVE DivLimbs(_, _, _)
DivLimbs(r, d, n) ==
    IF n = 0 THEN <<IF r = 0 THEN 0 ELSE 1>>
    ELSE <<(1024 * r) \div d>> \o DivLimbs((1024 * r) % d, d, n - 1)

\* l * k + c, for k and c below 1024.
RECURSIVE MulLimbs(_, _, _)
MulLimbs(l, k, c) ==
    IF l = <<>> THEN <<c>>
    ELSE Append(MulLimbs(SubSeq(l, 1, Len(l) - 1), k, (l[Len(l)] * k + c) \div 1024),
                (l[Len(l)] * k + c) % 1024)

\* The digits of b * k + c.
MulAdd(b, k, c) == Digits(MulLimbs(Limbs(b), k, c))

\* The digits q, exact or ending in digits that stand for what follows
\* them, rounded to 53 digits, to nearest and ties to even.
Round53(q) ==
    IF Len(q) <= 53 THEN q
    ELSE IF q[54] = 1 /\ (q[53] = 1 \/ \E i \in 55..Len(q) : q[i] = 1)
    THEN MulAdd(SubSeq(q, 1, 53), 1, 1)
    ELSE SubSeq(q, 1, 53)

\* n > 0 doubled until it is at least d, and how often it was doubled.
Scale(n, d) ==
    LET s == CHOOSE s \in 0..30 :
                 /\ 2^s >= (d + n - 1) \div n
                 /\ s = 0 \/ 2^(s - 1) < (d + n - 1) \div n
    IN [n |-> n * 2^s, s |-> s]

\* n / d of two Python ints, n >= 0 and d > 0: the double nearest to the
\* quotient. timedelta.total_seconds() is microseconds / 10**6.
truediv(n, d) ==
    IF n = 0 THEN [bits |-> <<>>, frac |-> 0]
    ELSE LET sc == Scale(n, d)
             ib == Bits(sc.n \div d)
         IN [bits |-> Round53(ib \o Expand(DivLimbs(sc.n % d, d, 6))),
             frac |-> 53 - Len(ib) + sc.s]

\* x * k for a double x and a small natural number k.
float_mul(x, k) ==
    IF x.bits = <<>> THEN x
    ELSE LET p == MulAdd(x.bits, k, 0)
         IN [bits |-> Round53(p),
             frac |-> x.frac - (IF Len(p) > 53 THEN Len(p) - 53 ELSE 0)]

\* int(x) for a double x >= 0: the digits before the binary point.
float_to_int(x) ==
    IF x.frac >= Len(x.bits) THEN 0
    ELSE ToNat(SubSeq(x.bits, 1, Len(x.bits) - x.frac))

\* core.py:144-159: the value stored in _timeout.value and installed,
\* int(timeout.total_seconds() * 1000).
lock_timeout_ms(timeout) ==
    IF timeout.kind = "none" THEN 0
    ELSE float_to_int(float_mul(truediv(_cast_timeout(timeout).us, 1000000), 1000))

_is_transaction_errored_mut(status) == FALSE

\* core.py:96-108
_is_transaction_errored(status) == status = "inerror"

restore_value_mut(old) == ResetVal

\* core.py:170-173: the value the restore statement installs.
restore_value(old) == IF old = PyNone THEN ResetVal ELSE old

\* core.py:165-173, the finally block: _timeout.value is put back and, unless
\* the transaction is found aborted, the restore statement is sent.
lt_finally(c, old) ==
    LET c1 == [c EXCEPT !.tl = old] IN
    IF _is_transaction_errored(c.txst) THEN c1
    ELSE IF Refused(c)
    THEN [Send(c1, "restore", restore_value(old)) EXCEPT !.err = RefusalError(c)]
    ELSE [Send(c1, "restore", restore_value(old)) EXCEPT !.guc = restore_value(old)]

\* core.py:155-164: the scope is entered with a checked timeout of ms
\* milliseconds. When the set_config statement is refused the finally block
\* runs at once.
lt_enter(c, ms) ==
    IF Refused(c)
    THEN lt_finally([Send(c, "set_config", ms) EXCEPT !.err = RefusalError(c)], c.tl)
    ELSE [Send(c, "set_config", ms) EXCEPT !.tl = ms, !.guc = ms]

\* core.py:169: r is the session after the finally block ran in c. When the
\* block sent nothing inside a transaction, the innermost level of the
\* transaction notes that a restore was skipped and what it would have
\* restored (pre).
lt_mark(r, c, pre) ==
    IF r.sent = c.sent /\ Len(c.sp) > 0
    THEN [r EXCEPT !.sp[Len(c.sp)] =
             [@ EXCEPT !.skipped = TRUE, !.skipPre = pre,
                       !.skipAll = @ \cup {pre}]]
    ELSE r

\* core.py:165-173: the scope is left, normally or with an exception; old is
\* the _timeout.value it saved, pre the lock_timeout before it was entered.
lt_exit(c, old, pre) == lt_mark(lt_finally(c, old), c, pre)

\* with pglock.timeout(timeout, using=a):
lock_timeout_enter(t, a, timeout) ==
    /\ Running(t)
    /\ Len(frames[t]) < MaxDepth
    /\ LET chk == lock_timeout_check(timeout)
           ms == lock_timeout_ms(timeout)
           c0 == Ctx(t, a)
           c1 == IF chk # "ok" THEN [c0 EXCEPT !.err = chk] ELSE lt_enter(c0, ms)
       IN /\ Apply(c1)
          /\ frames' = IF c1.err = "none"
                       THEN [frames EXCEPT ![t] =
                                Append(@, TimeoutFrame(a, c0.tl, ms, c0.guc))]
                       ELSE frames
    /\ UNCHANGED <<pend, dec, timer, now, settings>>

\* The end of the with-block, reached normally or by an exception.
lock_timeout_exit(t) ==
    /\ pend[t].kind = "none"
    /\ frames[t] # <<>>
    /\ Top(frames[t]).k = "timeout"
    /\ LET f == Top(frames[t]) IN Apply(lt_exit(Ctx(t, f.a), f.old, f.pre))
    /\ frames' = [frames EXCEPT ![t] = Pop(@)]
    /\ UNCHANGED <<pend, dec, timer, now, settings>>

\* with transaction.atomic(using=a):
atomic_enter(t, a) ==
    /\ Running(t)
    /\ Len(frames[t]) < MaxDepth
    /\ LET c1 == at_enter(Ctx(t, a))
       IN /\ Apply(c1)
          /\ frames' = IF c1.err = "none"
                       THEN [frames EXCEPT ![t] = Append(@, AtomicFrame(a))]
                       ELSE frames
    /\ UNCHANGED <<pend, dec, timer, now, settings>>

atomic_exit(t) ==
    /\ pend[t].kind = "none"
    /\ frames[t] # <<>>
    /\ Top(frames[t]).k = "atomic"
    /\ Apply(at_exit(Ctx(t, Top(frames[t]).a)))
    /\ frames' = [frames EXCEPT ![t] = Pop(@)]
    /\ UNCHANGED <<pend, dec, timer, now, settings>>

----------------------------------------------------------------------------
(* pglock.advisory *)

\* The side effects (core.py:57-78), as a class or as an instance of one;
\* None is the default of the argument (core.py:249).
Return == [cls |-> "Return", inst |-> FALSE]
Raise == [cls |-> "Raise", inst |-> FALSE]
Skip == [cls |-> "Skip", inst |-> FALSE]
None == [cls |-> "NoneType", inst |-> TRUE]
Instance(se) == [se EXCEPT !.inst = TRUE]

\* bool(lock_id), as "not self.lock_id" takes it (core.py:288, 301).
Truthy(lock_id) ==
    \/ lock_id.kind = "int" /\ lock_id.v # Small(0)
    \/ lock_id.kind = "str" /\ lock_id.v # <<>>
    \/ lock_id.kind = "other"

\* core.py:241-263, with __call__ (core.py:273) for func. "TypeError" in
\* timeout.kind stands for the raise of _cast_timeout.
advisory_init(lock_id, shared, xact, using, timeout, side_effect, func) ==
    LET tmo == _cast_timeout(timeout) IN
    [lock_id |-> lock_id, using |-> using, side_effect |-> side_effect,
     shared |-> shared, xact |-> xact, timeout |-> tmo,
     nowait |-> (tmo.kind = "td" /\ tmo.us = 0),
     func |-> func, acquired |-> FALSE, sv |-> FALSE, tx |-> FALSE]

\* f"{module.__name__}.{self._func.__name__}" (core.py:290) for the decorated
\* function of the model: "module.func".
FuncName == <<109, 111, 100, 117, 108, 101, 46, 102, 117, 110, 99>>

\* A variant that lets a decorated function use Return.
_process_runtime_parameters_mut(ob) ==
    LET id1 == IF ~Truthy(ob.lock_id) /\ ob.func
               THEN LStr(FuncName) ELSE ob.lock_id
        se1 == IF ob.side_effect = None
               THEN (IF ob.func THEN Raise ELSE Return)
               ELSE [ob.side_effect EXCEPT !.inst = FALSE]
        err == IF ~Truthy(id1) THEN "ValueError"
               ELSE IF se1 \notin {Return, Raise, Skip} THEN "ValueError"
               ELSE IF ~ob.func /\ se1 = Skip THEN "ValueError"
               ELSE "none"
    IN [ob |-> [ob EXCEPT !.lock_id = id1, !.side_effect = se1], err |-> err]

\* core.py:283-318: the object with lock_id and side_effect resolved, and
\* the error raised, "none" when the parameters are accepted.
_process_runtime_parameters(ob) ==
    LET id1 == IF ~Truthy(ob.lock_id) /\ ob.func
               THEN LStr(FuncName) ELSE ob.lock_id
        se1 == IF ob.side_effect = None
               THEN (IF ob.func THEN Raise ELSE Return)
               ELSE [ob.side_effect EXCEPT !.inst = FALSE]
        err == IF ~Truthy(id1) THEN "ValueError"
               ELSE IF se1 \notin {Return, Raise, Skip} THEN "ValueError"
               ELSE IF ~ob.func /\ se1 = Skip THEN "ValueError"
               ELSE IF ob.func /\ se1 = Return THEN "ValueError"
               ELSE "none"
    IN [ob |-> [ob EXCEPT !.lock_id = id1, !.side_effect = se1], err |-> err]

----------------------------------------------------------------------------
(* hashlib.sha256, str.encode and int.from_bytes, as _cast_lock_id uses them *)

\* 32-bit words are pairs <<high half, low half>> of 16-bit numbers.
sha256_H0 ==
    <<<<27145, 58983>>, <<47975, 44677>>, <<15470, 62322>>, <<42319, 62778>>,
      <<20750, 21119>>, <<39685, 26764>>, <<8067, 55723>>, <<23520, 52505>>>>

sha256_K ==
    <<<<17034, 12184>>, <<28983, 17553>>, <<46528, 64463>>, <<59829, 56229>>,
      <<14678, 49755>>, <<23025, 4593>>, <<37439, 33444>>, <<43804, 24277>>,
      <<55303, 43672>>, <<4739, 23297>>, <<9265, 34238>>, <<21772, 32195>>,
      <<29374, 23924>>, <<32990, 45566>>, <<39900, 1703>>, <<49563, 61812>>,
      <<58523, 27073>>, <<61374, 18310>>, <<4033, 40390>>, <<9228, 41420>>,
      <<11753, 11375>>, <<19060, 33962>>, <<23728, 43484>>, <<30457, 35034>>,
      <<38974, 20818>>, <<43057, 50797>>, <<45059, 10184>>, <<48985, 32711>>,
      <<50912, 3059>>, <<54695, 37191>>, <<1738, 25425>>, <<5161, 10599>>,
      <<10167, 2693>>, <<11803, 8504>>, <<19756, 28156>>, <<21304, 3347>>,
      <<25866, 29524>>, <<30314, 2747>>, <<33218, 51502>>, <<37490, 11397>>,
      <<41663, 59553>>, <<43034, 26187>>, <<49739, 35696>>, <<51052, 20899>>,
      <<53650, 59417>>, <<54937, 1572>>, <<62478, 13701>>, <<4202, 41072>>,
      <<6564, 49430>>, <<7735, 27656>>, <<10056, 30540>>, <<13488, 48309>>,
      <<14620, 3251>>, <<20184, 43594>>, <<23452, 51791>>, <<26670, 28659>>,
      <<29839, 33518>>, <<30885, 25455>>, <<33992, 30740>>, <<36039, 520>>,
      <<37054, 65530>>, <<42064, 27883>>, <<48889, 41975>>, <<50801, 30962>>>>

\* The bitwise functions of three words, by truth table tt: tt[4a + 2b + c + 1]
\* is the bit for the bits a, b, c.
Parity == <<0, 1, 1, 0, 1, 0, 0, 1>>
Choose == <<0, 1, 0, 1, 0, 0, 1, 1>>
Majority == <<0, 0, 0, 1, 0, 1, 1, 1>>
Bit3(tt, a, b, c, i) ==
    tt[4 * ((a \div 2^i) % 2) + 2 * ((b \div 2^i) % 2) + ((c \div 2^i) % 2) + 1]
Nibble3(tt, a, b, c) ==
    Bit3(tt, a, b, c, 0) + 2 * Bit3(tt, a, b, c, 1)
      + 4 * Bit3(tt, a, b, c, 2) + 8 * Bit3(tt, a, b, c, 3)
Half3(tt, a, b, c) ==
    Nibble3(tt, a % 16, b % 16, c % 16)
      + 16 * Nibble3(tt, (a \div 16) % 16, (b \div 16) % 16, (c \div 16) % 16)
      + 256 * Nibble3(tt, (a \div 256) % 16, (b \div 256) % 16, (c \div 256) % 16)
      + 4096 * Nibble3(tt, a \div 4096, b \div 4096, c \div 4096)
Word3(tt, x, y, z) == <<Half3(tt, x[1], y[1], z[1]), Half3(tt, x[2], y[2], z[2])>>

\* Rotation and shift to the right by r bits, 0 < r < 32, and addition
\* modulo 2^32.
RotHalves(h, l, r) ==
    <<(h \div 2^r) + (l % 2^r) * 2^(16 - r), (l \div 2^r) + (h % 2^r) * 2^(16 - r)>>
rotr(x, r) ==
    IF r = 16 THEN <<x[2], x[1]>>
    ELSE IF r < 16 THEN RotHalves(x[1], x[2], r)
    ELSE RotHalves(x[2], x[1], r - 16)
shr(x, r) == <<x[1] \div 2^r, (x[2] \div 2^r) + (x[1] % 2^r) * 2^(16 - r)>>
add32(x, y) == <<(x[1] + y[1] + (x[2] + y[2]) \div 65536) % 65536, (x[2] + y[2]) % 65536>>

\* One round of the compression function. s holds the working variables
\* v = <<a, b, c, d, e, f, g, h>>, the number t of the round to come and
\* the message schedule w; kw is the sum of the round constant and the word
\* of the schedule.
sha256_t1(v, kw) ==
    add32(add32(v[8], Word3(Parity, rotr(v[5], 6), rotr(v[5], 11), rotr(v[5], 25))),
          add32(Word3(Choose, v[5], v[6], v[7]), kw))
sha256_t2(v) ==
    add32(Word3(Parity, rotr(v[1], 2), rotr(v[1], 13), rotr(v[1], 22)),
          Word3(Majority, v[1], v[2], v[3]))
sha256_step(s, t1, t2) ==
    [v |-> <<add32(t1, t2), s.v[1], s.v[2], s.v[3],
             add32(s.v[4], t1), s.v[5], s.v[6], s.v[7]>>,
     t |-> s.t + 1, w |-> s.w]
RECURSIVE sha256_rounds(_, _)
sha256_rounds(s, n) ==
    IF s.t > 64 THEN s
    ELSE IF n = 1
    THEN sha256_step(s, sha256_t1(s.v, add32(sha256_K[s.t], s.w[s.t])), sha256_t2(s.v))
    ELSE sha256_rounds(sha256_rounds(s, n \div 2), n \div 2)

\* The message schedule: the 16 words of the block extended to 64.
sha256_next(w, n) ==
    add32(add32(Word3(Parity, rotr(w[n - 1], 17), rotr(w[n - 1], 19), shr(w[n - 1], 10)),
                w[n - 6]),
          add32(Word3(Parity, rotr(w[n - 14], 7), rotr(w[n - 14], 18), shr(w[n - 14], 3)),
                w[n - 15]))
RECURSIVE sha256_extend(_, _)
sha256_extend(w, n) ==
    IF Len(w) = 64 THEN w
    ELSE IF n = 1 THEN Append(w, sha256_next(w, Len(w)))
    ELSE sha256_extend(sha256_extend(w, n \div 2), n \div 2)
sha256_schedule(b) ==
    sha256_extend([i \in 1..16 |-> <<b[4 * i - 3] * 256 + b[4 * i - 2],
                                     b[4 * i - 1] * 256 + b[4 * i]>>] \o <<>>, 64)

\* The padded message: the bytes, 0x80, zeros, and the length in bits as 8
\* bytes, a multiple of 64 bytes in all.
sha256_pad(m) ==
    m \o <<128>> \o [i \in 1..((55 - Len(m)) % 64) |-> 0] \o <<0, 0, 0, 0>>
      \o <<Len(m) \div 2097152, (Len(m) \div 8192) % 256,
           (Len(m) \div 32) % 256, (Len(m) * 8) % 256>>

\* The blocks of the padded message p are compressed one after the other
\* into the hash value hs.
sha256_add(hs, v) == [i \in 1..8 |-> add32(hs[i], v[i])] \o <<>>
sha256_compress(hs, b) ==
    sha256_add(hs, sha256_rounds([v |-> hs, t |-> 1, w |-> sha256_schedule(b)], 64).v)
RECURSIVE sha256_blocks(_)
sha256_blocks(st) ==
    IF st.p = <<>> THEN st.hs
    ELSE sha256_blocks([hs |-> sha256_compress(st.hs, SubSeq(st.p, 1, 64)),
                        p |-> SubSeq(st.p, 65, Len(st.p))])

\* hashlib.sha256(m).digest(): the 32 bytes of the eight words.
sha256_digest(m) ==
    LET hs == sha256_blocks([hs |-> sha256_H0, p |-> sha256_pad(m)])
    IN [i \in 1..32 |->
           LET half == hs[(i - 1) \div 4 + 1][((i - 1) % 4) \div 2 + 1]
           IN IF i % 2 = 1 THEN half \div 256 ELSE half % 256] \o <<>>

\* str.encode("utf-8") of a string given by its code points.
utf8(cp) ==
    IF cp < 128 THEN <<cp>>
    ELSE IF cp < 2048 THEN <<192 + (cp \div 64), 128 + (cp % 64)>>
    ELSE IF cp < 65536
    THEN <<224 + (cp \div 4096), 128 + ((cp \div 64) % 64), 128 + (cp % 64)>>
    ELSE <<240 + (cp \div 262144), 128 + ((cp \div 4096) % 64),
           128 + ((cp \div 64) % 64), 128 + (cp % 64)>>
RECURSIVE encode(_)
encode(str) ==
    IF Len(str) = 0 THEN <<>>
    ELSE IF Len(str) = 1 THEN utf8(str[1])
    ELSE encode(SubSeq(str, 1, Len(str) \div 2))
           \o encode(SubSeq(str, Len(str) \div 2 + 1, Len(str)))

\* A variant that reads the bytes with the most significant one first.
from_bytes_mut(b) ==
    PyInt((IF b[1] >= 128 THEN b[1] - 256 ELSE b[1]) * 16777216
             + b[2] * 65536 + b[3] * 256 + b[4],
          b[5] * 256 + b[6], b[7] * 256 + b[8])

\* int.from_bytes(b, "little", signed=True) for 8 bytes.
from_bytes(b) ==
    PyInt((IF b[8] >= 128 THEN b[8] - 256 ELSE b[8]) * 16777216
             + b[7] * 65536 + b[6] * 256 + b[5],
          b[4] * 256 + b[3], b[2] * 256 + b[1])

----------------------------------------------------------------------------
(* pglock.advisory, the lock and its key *)

\* core.py:176-185: the first 8 bytes of the SHA-256 digest of a string, an
\* int as it is. The TypeError for other values is raised where acquire
\* asks for int_lock_id (acq_checked).
_cast_lock_id(lock_id) ==
    IF lock_id.kind = "str"
    THEN from_bytes(SubSeq(sha256_digest(encode(lock_id.v)), 1, 8))
    ELSE lock_id.v

\* x >> 32 and x & 0xFFFFFFFF on a Python int.
rshift32(x) ==
    PyInt(IF x.hi < 0 THEN 0 - 1 ELSE 0, (x.hi \div 65536) % 65536, x.hi % 65536)
mask32(x) == PyInt(0, x.lo[1], x.lo[2])

\* core.py:188-200
advisory_pair(id) == <<rshift32(id), mask32(id)>>
advisory_id(lock_id) == advisory_pair(_cast_lock_id(lock_id))

\* The classid and objid columns of pg_locks for the advisory lock with a
\* bigint key (core.py:189-191): the upper and the lower 32 bits of the
\* key, both of type oid, an unsigned 32-bit number.
pg_locks_id(key) ==
    <<PyInt(0, (key.hi \div 65536) % 65536, key.hi % 65536),
      PyInt(0, key.lo[1], key.lo[2])>>

\* The key of the lock an object asks for.
KeyOf(ob) == <<_cast_lock_id(ob.lock_id), ob.shared>>

\* The advisory lock identifiers the backend sees: 1 and the one of the
\* name of the decorated function; and the keys of the locks: an identifier
\* with the shared flag of the request.
LockIds == {Small(1), _cast_lock_id(LStr(FuncName))}
Keys == LockIds \X BOOLEAN

\* core.py:326-331, 363-364: the function the statement calls.
acquire_sql(ob) ==
    IF ob.nowait
    THEN (IF ob.xact
          THEN (IF ob.shared THEN "pg_try_advisory_xact_lock_shared"
                ELSE "pg_try_advisory_xact_lock")
          ELSE (IF ob.shared THEN "pg_try_advisory_lock_shared"
                ELSE "pg_try_advisory_lock"))
    ELSE (IF ob.xact
          THEN (IF ob.shared THEN "pg_advisory_xact_lock_shared"
                ELSE "pg_advisory_xact_lock")
          ELSE (IF ob.shared THEN "pg_advisory_lock_shared"
                ELSE "pg_advisory_lock"))
release_sql(ob) ==
    IF ob.shared THEN "pg_advisory_unlock_shared" ELSE "pg_advisory_unlock"

\* The backend's lock table: session (t, a) holds advisory key k, at session
\* level or in one of its open transaction levels.
HoldsKey(t, a, k) ==
    \/ held[t][a][k] > 0
    \/ \E i \in 1..Len(sp[t][a]) : k \in sp[t][a][i].xl

\* Two requests for one identifier conflict unless both are shared.
Conflicts(k1, k2) == k1[1] = k2[1] /\ (~k1[2] \/ ~k2[2])

\* Another session on the same database holds a lock that conflicts with k.
Blocked(t, a, k) ==
    \E t2 \in Threads \ {t}, k2 \in Keys : Conflicts(k, k2) /\ HoldsKey(t2, a, k2)

\* The backend grants the lock: to the session, or to its current
\* transaction level for an xact lock.
Grant(c, ob) ==
    IF ob.xact
    THEN [c EXCEPT !.sp[Len(c.sp)].xl = @ \cup {KeyOf(ob)}]
    ELSE [c EXCEPT !.held[KeyOf(ob)] = @ + 1]

NoWrap == [lt |-> FALSE, sv |-> FALSE, old |-> 0, pre |-> 0]

\* An error leaves acquire before its try block. The record of the call
\* tells which call was refused, with what side effect, and the error.
acq_raise(c, ob, e) ==
    [st |-> "raised",
     c |-> [c EXCEPT !.err = e,
                    !.last = [op |-> "usage", call |-> "advisory", err |-> e,
                              se |-> ob.side_effect, func |-> ob.func,
                              xact |-> ob.xact]],
     ob |-> ob, w |-> NoWrap]

\* core.py:336-337: the timeout scope of the statement, entered into c1 from
\* c when the call has a timeout other than 0. w tells which of the timeout
\* scope (lt) and the savepoint (sv) are open, with what the scope saved.
acq_lt_in(c1, c) ==
    [c |-> c1,
     w |-> [lt |-> c1.err = "none", sv |-> FALSE, old |-> c.tl, pre |-> c.guc]]
\* An acquire that sets the timeout of a non-blocking call as well.
acq_lt_mut(c, ob) ==
    IF ob.timeout.kind # "unset"
    THEN acq_lt_in(lt_enter(c, lock_timeout_ms(ob.timeout)), c)
    ELSE [c |-> c, w |-> NoWrap]

acq_lt(c, ob) ==
    IF ob.timeout.kind # "unset" /\ ~ob.nowait
    THEN acq_lt_in(lt_enter(c, lock_timeout_ms(ob.timeout)), c)
    ELSE [c |-> c, w |-> NoWrap]

\* core.py:339-342: the savepoint around the statement.
acq_sv_in(c2, w) == [c |-> c2, w |-> [w EXCEPT !.sv = c2.err = "none"]]
acq_sv(b, ob) ==
    IF b.w.lt /\ ob.side_effect # Raise /\ Len(b.c.sp) > 0
    THEN acq_sv_in(at_enter(b.c), b.w)
    ELSE b

\* core.py:344: the statement goes to the backend, unless entering the
\* timeout scope has already failed.
acq_execute(b, ob) ==
    [st |-> IF b.c.err = "none" /\ ~Refused(b.c) THEN "issued" ELSE "failed",
     c |-> IF b.c.err # "none" THEN b.c
           ELSE IF Refused(b.c)
           THEN Fail(Send(b.c, acquire_sql(ob), KeyOf(ob)[1]), RefusalError(b.c))
           ELSE Send(b.c, acquire_sql(ob), KeyOf(ob)[1]),
     ob |-> ob, w |-> b.w]

\* core.py:323-344, with the parameters resolved.
acq_checked(c, ob) ==
    IF ob.xact /\ Len(c.sp) = 0 THEN acq_raise(c, ob, "RuntimeError")
    ELSE IF ob.lock_id.kind \notin {"int", "str"} THEN acq_raise(c, ob, "TypeError")
    ELSE acq_execute(acq_sv(acq_lt(c, ob), ob), ob)

acq_params(c, p) ==
    IF p.err # "none" THEN acq_raise(c, p.ob, p.err) ELSE acq_checked(c, p.ob)

\* core.py:321-344, acquire up to the moment the statement is with the
\* backend. st is "raised" when an error left acquire before its try block,
\* "failed" when one was raised inside it, "issued" when the statement runs.
acq_begin(c, ob0) == acq_params(c, _process_runtime_parameters(ob0))

\* The answer of the backend: out is "granted", "false" (the try variant
\* found the lock taken), the error the statement failed with, or "pre"
\* when the error came before the statement.
acq_answer(c, ob, out) ==
    CASE out = "granted" -> Grant(c, ob)
      [] out \in {"false", "pre"} -> c
      [] OTHER -> Fail(c, out)

\* core.py:335: the ExitStack leaves the savepoint, then the timeout scope.
acq_unwind_lt(c, w) == IF w.lt THEN lt_exit(c, w.old, w.pre) ELSE c
acq_unwind(c, w) == acq_unwind_lt(IF w.sv THEN at_exit(c) ELSE c, w)

fetched_mut(ob, out) == TRUE

\* core.py:345: the status a statement that returned gives, the value the
\* try variant fetched or True.
fetched(ob, out) == IF ob.nowait THEN out = "granted" ELSE TRUE

IsOperationalError_mut(e) == FALSE

\* The errors Django raises as django.db.utils.OperationalError: a lock wait
\* that timed out or a NOWAIT conflict (LockNotAvailable), a cancelled
\* statement, a detected deadlock, a terminated connection, and the one
\* acquire raises itself (core.py:354).
IsOperationalError(e) ==
    e \in {"LockNotAvailable", "QueryCanceled", "DeadlockDetected",
           "AdminShutdown", "OperationalError"}

\* core.py:345-354: an OperationalError is turned into False unless the
\* side effect is Raise, and a False under Raise is raised.
acq_except(c, ob, out) ==
    IF c.err # "none"
    THEN (IF IsOperationalError(c.err) /\ ob.side_effect # Raise
          THEN [c |-> [c EXCEPT !.err = "none"], acquired |-> FALSE]
          ELSE [c |-> c, acquired |-> FALSE])
    ELSE IF ~fetched(ob, out) /\ ob.side_effect = Raise
    THEN [c |-> [c EXCEPT !.err = "OperationalError"], acquired |-> FALSE]
    ELSE [c |-> c, acquired |-> fetched(ob, out)]

\* What acquire returns or raises, with the record of the call: x is the
\* outcome of the try block, c0 the state the answer of the backend came to.
acq_result(x, c0, ob, w, out) ==
    [c |-> [x.c EXCEPT !.last =
               [op |-> "acquire", t |-> c0.t, a |-> c0.a, se |-> ob.side_effect,
                out |-> out,
                ret |-> IF x.c.err # "none" THEN "raise"
                        ELSE IF x.acquired THEN "True" ELSE "False",
                err |-> x.c.err, explicit |-> ob.timeout.kind # "unset",
                nowait |-> ob.nowait, shared |-> ob.shared,
                intx |-> Len(c0.sp) > (IF w.sv THEN 1 ELSE 0)]],
     ret |-> x.acquired]

\* core.py:335-356, acquire from the answer of the backend on.
acq_end(c, ob, w, out) ==
    acq_result(acq_except(acq_unwind(acq_answer(c, ob, out), w), ob, out),
               c, ob, w, out)

acq_done(r, b) ==
    [st |-> "done", c |-> r.c, ob |-> b.ob, ret |-> r.ret, w |-> b.w]

acq_run(c, b) ==
    CASE b.st = "raised" ->
           [st |-> "done", c |-> b.c, ob |-> b.ob, ret |-> FALSE, w |-> b.w]
      [] b.st = "failed" -> acq_done(acq_end(b.c, b.ob, b.w, "pre"), b)
      [] b.st = "issued" /\ b.ob.nowait ->
           acq_done(acq_end(b.c, b.ob, b.w,
                            IF Blocked(c.t, c.a, KeyOf(b.ob))
                            THEN "false" ELSE "granted"), b)
      [] b.st = "issued" /\ ~b.ob.nowait /\ ~Blocked(c.t, c.a, KeyOf(b.ob)) ->
           acq_done(acq_end(b.c, b.ob, b.w, "granted"), b)
      [] OTHER ->
           [st |-> "wait", c |-> b.c, ob |-> b.ob, ret |-> FALSE, w |-> b.w]

\* core.py:320-356 when the statement does not have to wait: the whole call.
\* st is "wait" when the statement is queued behind a conflicting lock.
acquire(c, ob0) == acq_run(c, acq_begin(c, ob0))

\* A variant that unlocks whatever the object is.
release_mut(c, ob) ==
    IF Refused(c)
    THEN [Send(c, release_sql(ob), KeyOf(ob)[1]) EXCEPT !.err = RefusalError(c)]
    ELSE [Send(c, release_sql(ob), KeyOf(ob)[1]) EXCEPT
             !.held[KeyOf(ob)] = IF @ > 0 THEN @ - 1 ELSE @]

\* core.py:358-364. The unlock statement of an aborted transaction is
\* refused; otherwise the session gives up one hold of the key, if it has one.
release(c, ob) ==
    IF ob.xact
    THEN [c EXCEPT !.err = "RuntimeError",
                   !.last = [op |-> "usage", call |-> "release", err |-> "RuntimeError",
                             se |-> ob.side_effect, func |-> ob.func, xact |-> TRUE]]
    ELSE IF Refused(c)
    THEN [Send(c, release_sql(ob), KeyOf(ob)[1]) EXCEPT !.err = RefusalError(c)]
    ELSE [Send(c, release_sql(ob), KeyOf(ob)[1]) EXCEPT
             !.held[KeyOf(ob)] = IF @ > 0 THEN @ - 1 ELSE @]

\* A variant that lets an xact lock be entered inside a transaction.
enter_begin_mut(c, ob) ==
    IF ob.timeout.kind = "TypeError"
    THEN [c |-> acq_raise(c, ob, "TypeError").c, ob |-> [ob EXCEPT !.tx = FALSE]]
    ELSE IF ob.xact
    THEN [c |-> at_enter(c), ob |-> [ob EXCEPT !.tx = TRUE]]
    ELSE [c |-> c, ob |-> [ob EXCEPT !.tx = FALSE]]

\* core.py:367-378: the durable transaction of an xact lock. An object whose
\* timeout has a wrong type does not come to be: its constructor raises
\* (core.py:257).
enter_begin(c, ob) ==
    IF ob.timeout.kind = "TypeError"
    THEN [c |-> acq_raise(c, ob, "TypeError").c, ob |-> [ob EXCEPT !.tx = FALSE]]
    ELSE IF ob.xact /\ Len(c.sp) > 0
    THEN [c |-> acq_raise(c, ob, "RuntimeError").c, ob |-> [ob EXCEPT !.tx = FALSE]]
    ELSE IF ob.xact
    THEN [c |-> at_enter(c), ob |-> [ob EXCEPT !.tx = TRUE]]
    ELSE [c |-> c, ob |-> [ob EXCEPT !.tx = FALSE]]

\* core.py:380: acquire, unless opening the transaction has raised.
enter_acquire(e) ==
    IF e.c.err # "none"
    THEN [st |-> "done", c |-> e.c, ob |-> e.ob, ret |-> FALSE, w |-> NoWrap]
    ELSE acquire(e.c, e.ob)

\* core.py:382-388: the savepoint that protects the release.
enter_sv(c1, ob, ret) ==
    [c |-> c1,
     ob |-> [ob EXCEPT !.acquired = ret, !.sv = c1.err = "none"],
     entered |-> c1.err = "none"]

\* core.py:380-390, after acquire has returned ret or raised c.err: the
\* status is stored and the savepoint is opened. entered tells whether
\* __enter__ returned.
enter_finish(c, ob, ret) ==
    IF c.err # "none" THEN [c |-> c, ob |-> ob, entered |-> FALSE]
    ELSE IF ret /\ ~ob.xact /\ Len(c.sp) > 0
    THEN enter_sv(at_enter(c), ob, ret)
    ELSE [c |-> c, ob |-> [ob EXCEPT !.acquired = ret, !.sv = FALSE],
          entered |-> TRUE]

\* core.py:399-402, with c1 the state the exit of the savepoint context led to.
exit_tx(c2, c1, ob) ==
    IF c2.err # c1.err THEN c2
    ELSE IF ob.acquired /\ ~ob.xact THEN release(c2, ob)
    ELSE c2
exit_sv(c1, c, ob) ==
    IF c1.err # c.err THEN c1
    ELSE exit_tx(IF ob.tx THEN at_exit(c1) ELSE c1, c1, ob)

\* core.py:392-402, with c.err the exception the block is left with. An
\* exception raised by the exit of one of the two contexts leaves __exit__
\* at once; one raised by release replaces the exception in flight.
exit(c, ob) == exit_sv(IF ob.sv THEN at_exit(c) ELSE c, c, ob)

AdvisoryFrame(a, sh, ob, got) ==
    [k |-> "advisory", a |-> a, sh |-> sh, func |-> ob.func, ob |-> ob,
     got |-> got, checked |-> ~ob.func, ran |-> ~ob.func]

\* The object a frame or a waiting call works on: the shared one of the
\* decorated function (_recreate_cm returns self), or its own.
ObjOf(r) == IF r.sh THEN dec ELSE r.ob

enter_apply(t, a, sh, f, ret) ==
    /\ Apply(f.c)
    /\ pend' = [pend EXCEPT ![t] = NoPend]
    /\ dec' = IF sh THEN f.ob ELSE dec
    /\ frames' = IF f.entered
                 THEN [frames EXCEPT ![t] = Append(@, AdvisoryFrame(a, sh, f.ob, ret))]
                 ELSE frames

\* __enter__ goes on after acquire is done.
enter_done(t, a, sh, r) == enter_apply(t, a, sh, enter_finish(r.c, r.ob, r.ret), r.ret)

\* __enter__ returns or raises, or the statement of acquire waits.
enter_go(t, a, sh, r) ==
    IF r.st = "wait"
    THEN /\ Apply(r.c)
         /\ pend' = [pend EXCEPT ![t] =
                       [kind |-> "advisory", a |-> a, sh |-> sh, ob |-> r.ob, w |-> r.w,
                        kill |-> "none", since |-> now]]
         /\ dec' = IF sh THEN r.ob ELSE dec
         /\ frames' = frames
    ELSE enter_done(t, a, sh, r)

\* "with ob:" or a call of the decorated function: __enter__ (core.py:366-390)
\* up to its return, or up to the point where the statement waits.
advisory_enter(t, sh, ob0) ==
    /\ Running(t)
    /\ Len(frames[t]) < MaxDepth
    /\ \A k \in Keys : held[t][ob0.using][k] < MaxHolds
    /\ enter_go(t, ob0.using, sh, enter_acquire(enter_begin(Ctx(t, ob0.using), ob0)))
    /\ UNCHANGED <<timer, now, settings>>

resume_done(t, p, ob, r) ==
    enter_done(t, p.a, p.sh, [c |-> r.c, ob |-> ob, ret |-> r.ret])

\* The backend answers the waiting statement with out; acquire and __enter__
\* run to their end.
advisory_resume(t, out) ==
    /\ pend[t].kind = "advisory"
    /\ resume_done(t, pend[t], ObjOf(pend[t]),
                   acq_end(Ctx(t, pend[t].a), ObjOf(pend[t]), pend[t].w, out))
    /\ UNCHANGED <<timer, now, settings>>

\* The lock is free: the waiting statement returns.
lock_granted(t) ==
    /\ pend[t].kind = "advisory"
    /\ pend[t].kill = "none"
    /\ ~Blocked(t, pend[t].a, KeyOf(ObjOf(pend[t])))
    /\ advisory_resume(t, "granted")

\* The wait has lasted lock_timeout milliseconds: the statement is aborted.
lock_wait_timeout(t) ==
    /\ pend[t].kind = "advisory"
    /\ pend[t].kill = "none"
    /\ guc[t][pend[t].a] > 0
    /\ Blocked(t, pend[t].a, KeyOf(ObjOf(pend[t])))
    /\ advisory_resume(t, "LockNotAvailable")

\* Someone cancels the waiting statement (pg_cancel_backend).
statement_cancelled(t) ==
    /\ pend[t].kind = "advisory"
    /\ advisory_resume(t, "QueryCanceled")

\* ob.acquire(), called by itself (core.py:320-356), for the calls whose
\* statement does not have to wait.
advisory_acquire(t, ob0) ==
    /\ Running(t)
    /\ \A k \in Keys : held[t][ob0.using][k] < MaxHolds
    /\ acquire(Ctx(t, ob0.using), ob0).st = "done"
    /\ Apply(acquire(Ctx(t, ob0.using), ob0).c)
    /\ UNCHANGED <<frames, pend, dec, timer, now, settings>>

\* ob.release(), called by itself (core.py:358-364).
advisory_release(t, ob) ==
    /\ Running(t)
    /\ Apply(release(Ctx(t, ob.using), ob))
    /\ UNCHANGED <<frames, pend, dec, timer, now, settings>>

\* core.py:278-279: the wrapper decides whether the function runs.
advisory_call(t) ==
    /\ exc[t] = "none"
    /\ pend[t].kind = "none"
    /\ frames[t] # <<>>
    /\ Top(frames[t]).k = "advisory"
    /\ ~Top(frames[t]).checked
    /\ LET ob == ObjOf(Top(frames[t])) IN
       frames' = [frames EXCEPT ![t][Len(frames[t])] =
                     [@ EXCEPT !.checked = TRUE,
                               !.ran = ob.acquired \/ ob.side_effect # Skip]]
    /\ sent' = <<>>
    /\ last' = NoCall
    /\ UNCHANGED <<tl, exc, guc, txst, sp, held, pend, dec, timer, now, settings>>

\* The end of the with-block or of the wrapper, reached normally or by an
\* exception: __exit__ (core.py:392-402).
advisory_exit(t) ==
    /\ pend[t].kind = "none"
    /\ frames[t] # <<>>
    /\ Top(frames[t]).k = "advisory"
    /\ exc[t] # "none" \/ Top(frames[t]).checked
    /\ Apply(exit(Ctx(t, Top(frames[t]).a), ObjOf(Top(frames[t]))))
    /\ frames' = [frames EXCEPT ![t] = Pop(@)]
    /\ UNCHANGED <<pend, dec, timer, now, settings>>

----------------------------------------------------------------------------
(* pglock.model *)

\* Two lock modes conflict unless both are ACCESS SHARE: of the modes of
\* core.py:38-45 the model has ACCESS SHARE and ACCESS EXCLUSIVE.
ModeConflict(m1, m2) == ~(m1 = "ACCESS SHARE" /\ m2 = "ACCESS SHARE")

\* The relation locks session (t, a) holds, as <<relation, mode>>.
HoldsRel(t, a) == UNION {sp[t][a][i].rl : i \in 1..Len(sp[t][a])}

\* The other sessions of the database that hold a lock in conflict with a
\* request for mode on the relations rels.
RelBlockers(t, a, rels, mode) ==
    {t2 \in Threads \ {t} :
        \E l \in HoldsRel(t2, a) : l[1] \in rels /\ ModeConflict(mode, l[2])}

\* The arguments of a call, with timeout and side_effect as core.py:438-439
\* turn them.
model_args(models, mode, using, timeout, side_effect) ==
    [models |-> models, mode |-> mode, using |-> using,
     timeout |-> _cast_timeout(timeout),
     side_effect |-> [side_effect EXCEPT !.inst = FALSE],
     nowait |-> (_cast_timeout(timeout).kind = "td" /\ _cast_timeout(timeout).us = 0)]

mdl_raise(c, m, e) ==
    [st |-> "raised",
     c |-> [c EXCEPT !.err = e,
                    !.last = [op |-> "usage", call |-> "model", err |-> e,
                              se |-> m.side_effect, func |-> FALSE,
                              xact |-> TRUE]],
     m |-> m, w |-> NoWrap]

\* A model that takes no savepoint under Return.
mdl_sv_mut(c, m) == [c |-> c, w |-> NoWrap]

\* core.py:458-461: the savepoint of the Return side effect.
mdl_sv_in(c1) ==
    [c |-> c1, w |-> [NoWrap EXCEPT !.sv = c1.err = "none"]]
mdl_sv(c, m) ==
    IF m.side_effect = Return THEN mdl_sv_in(at_enter(c)) ELSE [c |-> c, w |-> NoWrap]

\* core.py:463-466: the timeout scope of the statement.
mdl_lt_in(c1, b) ==
    [c |-> c1,
     w |-> [b.w EXCEPT !.lt = c1.err = "none", !.old = b.c.tl, !.pre = b.c.guc]]
mdl_lt(b, m) ==
    IF b.c.err = "none" /\ m.timeout.kind # "unset" /\ ~m.nowait
    THEN mdl_lt_in(lt_enter(b.c, lock_timeout_ms(m.timeout)), b)
    ELSE b

\* core.py:452-454, 468-469: LOCK TABLE ... IN mode MODE [NOWAIT].
mdl_sql(m) == IF m.nowait THEN "LOCK TABLE NOWAIT" ELSE "LOCK TABLE"
mdl_execute(b, m) ==
    [st |-> IF b.c.err = "none" /\ ~Refused(b.c) THEN "issued" ELSE "failed",
     c |-> IF b.c.err # "none" THEN b.c
           ELSE IF Refused(b.c)
           THEN Fail(Send(b.c, mdl_sql(m), m.mode), RefusalError(b.c))
           ELSE Send(b.c, mdl_sql(m), m.mode),
     m |-> m, w |-> b.w]

\* A variant that accepts a call without models.
mdl_begin_mut(c, m) ==
    IF m.timeout.kind = "TypeError" THEN mdl_raise(c, m, "TypeError")
    ELSE IF m.side_effect \notin {Return, Raise} THEN mdl_raise(c, m, "ValueError")
    ELSE IF Len(c.sp) = 0 THEN mdl_raise(c, m, "RuntimeError")
    ELSE mdl_execute(mdl_lt(mdl_sv(c, m), m), m)

\* core.py:438-469, model up to the moment the statement is with the backend.
mdl_begin(c, m) ==
    IF m.timeout.kind = "TypeError" THEN mdl_raise(c, m, "TypeError")
    ELSE IF m.side_effect \notin {Return, Raise} THEN mdl_raise(c, m, "ValueError")
    ELSE IF m.models = {} THEN mdl_raise(c, m, "ValueError")
    ELSE IF Len(c.sp) = 0 THEN mdl_raise(c, m, "RuntimeError")
    ELSE mdl_execute(mdl_lt(mdl_sv(c, m), m), m)

\* The answer of the backend: "granted", or the error the statement failed
\* with, or "pre" when the error came before the statement. The locks belong
\* to the transaction level the statement ran in.
mdl_answer(c, m, out) ==
    CASE out = "granted" ->
           [c EXCEPT !.sp[Len(c.sp)].rl = @ \cup {<<r, m.mode>> : r \in m.models}]
      [] out = "pre" -> c
      [] OTHER -> Fail(c, out)

\* core.py:457: the ExitStack leaves the timeout scope, then the savepoint.
mdl_unwind_sv(c, w) == IF w.sv THEN at_exit(c) ELSE c

\* A model that leaves its timeout in force.
mdl_unwind_mut(c, w) == mdl_unwind_sv(c, w)

mdl_unwind(c, w) == mdl_unwind_sv(IF w.lt THEN lt_exit(c, w.old, w.pre) ELSE c, w)

\* core.py:471-477
mdl_except(c, m) ==
    IF IsOperationalError(c.err) /\ m.side_effect = Return
    THEN [c EXCEPT !.err = "none"]
    ELSE c

mdl_result(c, c0, m, w, out) ==
    [c EXCEPT !.last =
        [op |-> "model", t |-> c0.t, a |-> c0.a, se |-> m.side_effect, out |-> out,
         ret |-> IF c.err # "none" THEN "raise"
                 ELSE IF out = "granted" THEN "True" ELSE "False",
         err |-> c.err, explicit |-> m.timeout.kind # "unset", nowait |-> m.nowait,
         waited |-> FALSE, since |-> 0, deadline |-> 0, fired |-> 0]]

\* core.py:456-477, model from the answer of the backend on.
mdl_end(c, m, w, out) ==
    mdl_result(mdl_except(mdl_unwind(mdl_answer(c, m, out), w), m), c, m, w, out)

\* The lock_timeout of the waiting statement of thread t runs out at this
\* time; statements wait for ever under a lock_timeout of 0.
Deadline(t) ==
    pend[t].since + (guc[t][pend[t].a] + TickMs - 1) \div TickMs

\* LOCK TABLE takes the tables in the order of the statement and stops at
\* the first one it has to wait for; the calls of the scenarios name
\* auth_user before auth_group. Obtained is the set of tables the statement
\* of thread t has locked when it stops.
Listed == <<"auth_user", "auth_group">>
Position(r) == CHOOSE i \in 1..Len(Listed) : Listed[i] = r
Obtained(t, a, m) ==
    {r \in m.models :
        \A q \in m.models :
            Position(q) <= Position(r) => RelBlockers(t, a, {q}, m.mode) = {}}

\* The locks the statement has obtained belong to the transaction level
\* it runs in.
mdl_partial(c, m) ==
    [c EXCEPT !.sp[Len(c.sp)].rl = @ \cup {<<r, m.mode>> : r \in Obtained(c.t, c.a, m)}]

mdl_go(t, c, b) ==
    CASE b.st = "raised" -> Apply(b.c) /\ pend' = pend
      [] b.st = "failed" -> Apply(mdl_end(b.c, b.m, b.w, "pre")) /\ pend' = pend
      [] b.st = "issued" /\ RelBlockers(t, c.a, b.m.models, b.m.mode) = {} ->
           Apply(mdl_end(b.c, b.m, b.w, "granted")) /\ pend' = pend
      [] b.st = "issued" /\ b.m.nowait
            /\ RelBlockers(t, c.a, b.m.models, b.m.mode) # {} ->
           Apply(mdl_end(mdl_partial(b.c, b.m), b.m, b.w, "LockNotAvailable"))
             /\ pend' = pend
      [] OTHER ->
           /\ Apply(mdl_partial(b.c, b.m))
           /\ pend' = [pend EXCEPT ![t] =
                         [kind |-> "model", a |-> c.a, m |-> b.m, w |-> b.w,
                          kill |-> "none", since |-> now, fired |-> timer.fired]]

\* pglock.model(*models, mode=..., using=..., timeout=..., side_effect=...)
model(t, m) ==
    /\ Running(t)
    /\ mdl_go(t, Ctx(t, m.using), mdl_begin(Ctx(t, m.using), m))
    /\ UNCHANGED <<frames, dec, timer, now, settings>>

\* The record of a call that waited: since when, until when at most (0 for
\* no limit), and how often the timer had fired when the wait began.
mdl_waited(c, p, deadline) ==
    [c EXCEPT !.last = [@ EXCEPT !.waited = TRUE, !.since = p.since,
                                 !.deadline = deadline, !.fired = p.fired]]

\* The backend answers the waiting LOCK TABLE with out.
model_resume(t, out) ==
    /\ pend[t].kind = "model"
    /\ Apply(mdl_waited(mdl_end(Ctx(t, pend[t].a), pend[t].m, pend[t].w, out),
                        pend[t],
                        IF guc[t][pend[t].a] > 0 THEN Deadline(t) ELSE 0))
    /\ pend' = [pend EXCEPT ![t] = NoPend]
    /\ UNCHANGED <<frames, dec, timer, now, settings>>

\* The waiting statement of thread t can lock a table it has not locked yet.
CanAdvance(t) ==
    /\ pend[t].kind = "model"
    /\ mdl_partial(Ctx(t, pend[t].a), pend[t].m).sp # sp[t][pend[t].a]

\* The table the statement waited for is free but a later one is not: the
\* statement locks the tables up to that one and waits again, its
\* lock_timeout counting from there.
model_advance(t) ==
    /\ CanAdvance(t)
    /\ pend[t].kill = "none"
    /\ RelBlockers(t, pend[t].a, pend[t].m.models, pend[t].m.mode) # {}
    /\ Apply(mdl_partial(Ctx(t, pend[t].a), pend[t].m))
    /\ pend' = [pend EXCEPT ![t].since = now]
    /\ UNCHANGED <<frames, dec, timer, now, settings>>

\* No conflicting lock is left: the statement returns.
model_granted(t) ==
    /\ pend[t].kind = "model"
    /\ pend[t].kill = "none"
    /\ RelBlockers(t, pend[t].a, pend[t].m.models, pend[t].m.mode) = {}
    /\ model_resume(t, "granted")

\* The statement has waited lock_timeout milliseconds and is aborted.
model_wait_timeout(t) ==
    /\ pend[t].kind = "model"
    /\ pend[t].kill = "none"
    /\ guc[t][pend[t].a] > 0
    /\ now >= Deadline(t)
    /\ RelBlockers(t, pend[t].a, pend[t].m.models, pend[t].m.mode) # {}
    /\ ~CanAdvance(t)
    /\ model_resume(t, "LockNotAvailable")

----------------------------------------------------------------------------
(* pglock.prioritize *)

\* The side effects of prioritize (core.py:505-559), as a class or as an
\* instance with its filters: "all" when the filters let every blocking lock
\* through (none given, or blocking_activity__duration__gte="0 seconds"),
\* "nothing" when they let none through, "bad" when they name a lookup that
\* does not exist (test_core.py:426-427).
Terminate == [cls |-> "Terminate", inst |-> FALSE, filters |-> "all"]
Cancel == [cls |-> "Cancel", inst |-> FALSE, filters |-> "all"]
WithFilters(se, filters) == [se EXCEPT !.inst = TRUE, !.filters = filters]

\* core.py:597-601: the interval in ticks; "TypeError" in kind stands for
\* the raise.
interval_ticks(interval) ==
    IF interval.kind = "td" THEN interval.us \div (1000 * TickMs) ELSE 0

\* pg_blocking_pids(pid) on database a: the sessions that hold a lock the
\* waiting statement of session (t, a) asks for.
pg_blocking_pids(t, a) ==
    IF pend[t].kind = "model" /\ pend[t].a = a
    THEN RelBlockers(t, a, pend[t].m.models, pend[t].m.mode)
    ELSE IF pend[t].kind = "advisory" /\ pend[t].a = a
    THEN {t2 \in Threads \ {t} :
             \E k2 \in Keys : Conflicts(KeyOf(ObjOf(pend[t])), k2) /\ HoldsKey(t2, a, k2)}
    ELSE {}

\* models.py:43-81: session (t, a) has rows in _pglock_lock_cte, which joins
\* pg_locks with pg_class: the relation locks it holds or waits for.
HasLockRows(t, a) ==
    HoldsRel(t, a) # {} \/ (pend[t].kind = "model" /\ pend[t].a = a)

\* models.py:84-91, 232-240 and 222-230: the blocking_activity_id values of
\* the rows whose pid is the protected session or one of its blockers.
blocking_activity_ids(t, a) ==
    UNION {IF HasLockRows(q, a) THEN pg_blocking_pids(q, a) ELSE {} :
              q \in {t} \cup pg_blocking_pids(t, a)}

\* A worker whose filters let no blocking session through.
Filtered_mut(se, ids) == {}

\* core.py:520-527 with the filters of the side effect applied.
Filtered(se, ids) == IF se.filters = "all" THEN ids ELSE {}

\* pg_terminate_backend: the backend of the session ends, its transaction is
\* gone with all its locks, and the statement it runs, if any, fails.
\* pg_cancel_backend: only a statement that is running is affected.
KillError(se) == IF se.cls = "Terminate" THEN "AdminShutdown" ELSE "QueryCanceled"

Killed(se, ids) ==
    /\ txst' = [t \in Threads |-> [a \in Aliases |->
                 IF t \in ids /\ a = "default" /\ se.cls = "Terminate"
                 THEN "closed" ELSE txst[t][a]]]
    /\ held' = [t \in Threads |-> [a \in Aliases |->
                 IF t \in ids /\ a = "default" /\ se.cls = "Terminate"
                 THEN [k \in Keys |-> 0] ELSE held[t][a]]]
    /\ sp' = [t \in Threads |-> [a \in Aliases |->
                 IF t \in ids /\ a = "default" /\ se.cls = "Terminate"
                 THEN [i \in 1..Len(sp[t][a]) |->
                          [sp[t][a][i] EXCEPT !.xl = {}, !.rl = {}]]
                 ELSE sp[t][a]]]
    /\ guc' = [t \in Threads |-> [a \in Aliases |->
                 IF t \in ids /\ a = "default" /\ se.cls = "Terminate"
                 THEN ResetVal ELSE guc[t][a]]]
    /\ pend' = [t \in Threads |->
                 IF t \in ids /\ pend[t].kind # "none" /\ pend[t].a = "default"
                 THEN [pend[t] EXCEPT !.kill = KillError(se)] ELSE pend[t]]

\* core.py:603-608: the timer thread is created and started.
new_timer(t, a, interval, periodic, se) ==
    [pc |-> "started", periodic |-> periodic, interval |-> interval_ticks(interval),
     pid |-> t, a |-> a, se |-> [se EXCEPT !.inst = TRUE],
     exc |-> "unset", finished |-> FALSE, due |-> 0, start |-> now, fired |-> 0]

\* A cancel that drops what the timer thread caught.
cancel_error_mut(tm, err) == err

\* core.py:498-502, and threading.Timer.cancel for the one-shot timer: the
\* exception cancel leaves the with-statement with, err being the one in
\* flight. self.exc does not exist before run has begun.
cancel_error(tm, err) ==
    IF ~tm.periodic THEN err
    ELSE IF tm.exc = "unset" THEN "AttributeError"
    ELSE IF tm.exc # "none" THEN "RuntimeError"
    ELSE err

PrioritizeFrame(a, lt, old, pre) ==
    [k |-> "prioritize", a |-> a, lt |-> lt, old |-> old, pre |-> pre]

\* A prioritize that notes a timeout scope and installs nothing.
pri_scope_mut(c1, timeout) == [c |-> c1, lt |-> timeout.kind # "unset"]

\* core.py:610-615, entered with the session in state c1 after the backend
\* pid was asked for: the timeout scope, and the yield if it was entered.
pri_scope(c1, timeout) ==
    IF timeout.kind = "unset" THEN [c |-> c1, lt |-> FALSE]
    ELSE IF lock_timeout_check(timeout) # "ok"
    THEN [c |-> [c1 EXCEPT !.err = lock_timeout_check(timeout)], lt |-> FALSE]
    ELSE [c |-> lt_enter(c1, lock_timeout_ms(timeout)), lt |-> TRUE]

\* The record of the end of a prioritize block: the exception the block
\* was left with, the one prioritize raised, and what the timer had caught.
pri_last(c, tm, body) ==
    [c EXCEPT !.err = cancel_error(tm, c.err),
              !.last = [op |-> "prioritize", t |-> c.t, body |-> body,
                        err |-> cancel_error(tm, c.err), cause |-> tm.exc,
                        periodic |-> tm.periodic, pc |-> tm.pc]]

pri_started(t, a, c0, s, tm) ==
    /\ timer' = IF s.c.err = "none" THEN tm ELSE [tm EXCEPT !.finished = TRUE]
    /\ Apply(IF s.c.err = "none" THEN s.c ELSE pri_last(s.c, tm, s.c.err))
    /\ frames' = IF s.c.err = "none"
                 THEN [frames EXCEPT ![t] =
                          Append(@, PrioritizeFrame(a, s.lt, c0.tl, c0.guc))]
                 ELSE frames

\* with pglock.prioritize(interval=..., periodic=..., using=a, timeout=...,
\* side_effect=...): core.py:595-615 up to the yield.
prioritize_enter(t, a, interval, periodic, timeout, se) ==
    /\ Running(t)
    /\ Len(frames[t]) < MaxDepth
    /\ timer.pc \in {"idle", "done"}
    /\ IF interval.kind # "td"
       THEN Apply([Ctx(t, a) EXCEPT !.err = "TypeError"])
            /\ UNCHANGED <<frames, timer>>
       ELSE IF Refused(Ctx(t, a))
       THEN Apply(Fail(Send(Ctx(t, a), "pg_backend_pid", 0), RefusalError(Ctx(t, a))))
            /\ UNCHANGED <<frames, timer>>
       ELSE pri_started(t, a, Ctx(t, a),
                        pri_scope(Send(Ctx(t, a), "pg_backend_pid", 0), timeout),
                        new_timer(t, a, interval, periodic, se))
    /\ UNCHANGED <<pend, dec, now, settings>>

\* The end of the block, reached normally or by an exception: the timeout
\* scope is left and the timer is cancelled (core.py:616-617).
prioritize_exit(t) ==
    /\ pend[t].kind = "none"
    /\ frames[t] # <<>>
    /\ Top(frames[t]).k = "prioritize"
    /\ Apply(pri_last(IF Top(frames[t]).lt
                      THEN lt_exit(Ctx(t, Top(frames[t]).a),
                                   Top(frames[t]).old, Top(frames[t]).pre)
                      ELSE Ctx(t, Top(frames[t]).a),
                      timer, exc[t]))
    /\ timer' = [timer EXCEPT !.finished = TRUE]
    /\ frames' = [frames EXCEPT ![t] = Pop(@)]
    /\ UNCHANGED <<pend, dec, now, settings>>

\* A timer whose first wait is over at once.
timer_run_mut ==
    /\ timer.pc = "started"
    /\ timer' = [timer EXCEPT !.pc = IF timer.finished THEN "done" ELSE "waiting",
                              !.exc = IF timer.periodic THEN "none" ELSE @,
                              !.due = now]
    /\ sent' = <<>>
    /\ last' = NoCall
    /\ UNCHANGED <<tl, frames, exc, guc, txst, sp, held, pend, dec, now, settings>>

\* The timer thread begins run: core.py:491 for the periodic timer, and the
\* first wait of core.py:493 or of threading.Timer.run.
timer_run ==
    /\ timer.pc = "started"
    /\ timer' = [timer EXCEPT !.pc = IF timer.finished THEN "done" ELSE "waiting",
                              !.exc = IF timer.periodic THEN "none" ELSE @,
                              !.due = now + timer.interval]
    /\ sent' = <<>>
    /\ last' = NoCall
    /\ UNCHANGED <<tl, frames, exc, guc, txst, sp, held, pend, dec, now, settings>>

\* The wait ends because the timer was cancelled.
timer_stop ==
    /\ timer.pc = "waiting"
    /\ timer.finished
    /\ timer' = [timer EXCEPT !.pc = "done"]
    /\ sent' = <<>>
    /\ last' = NoCall
    /\ UNCHANGED <<tl, frames, exc, guc, txst, sp, held, pend, dec, now, settings>>

\* A timer whose wait does not look at the cancellation.
fire_begin_mut ==
    /\ timer.pc = "waiting"
    /\ now >= timer.due
    /\ timer' = [timer EXCEPT !.pc = "firing"]
    /\ sent' = <<>>
    /\ last' = NoCall
    /\ UNCHANGED <<tl, frames, exc, guc, txst, sp, held, pend, dec, now, settings>>

\* The wait ends because the interval is over: the function is called.
fire_begin ==
    /\ timer.pc = "waiting"
    /\ ~timer.finished
    /\ now >= timer.due
    /\ timer' = [timer EXCEPT !.pc = "firing"]
    /\ sent' = <<>>
    /\ last' = NoCall
    /\ UNCHANGED <<tl, frames, exc, guc, txst, sp, held, pend, dec, now, settings>>

\* A periodic timer that goes on after a firing has raised.
fire_end_mut ==
    /\ timer.pc = "firing"
    /\ IF timer.se.filters = "bad"
       THEN /\ timer' = [timer EXCEPT !.pc = IF timer.periodic THEN "waiting" ELSE "done",
                                      !.fired = @ + 1,
                                      !.due = now + timer.interval,
                                      !.exc = IF timer.periodic THEN "FieldError" ELSE @]
            /\ UNCHANGED <<txst, held, sp, guc, pend>>
       ELSE /\ timer' = [timer EXCEPT !.pc = IF timer.periodic THEN "waiting" ELSE "done",
                                      !.fired = @ + 1,
                                      !.due = now + timer.interval]
            /\ Killed(timer.se,
                      Filtered(timer.se, blocking_activity_ids(timer.pid, "default")))
    /\ sent' = <<>>
    /\ last' = [op |-> "fire", se |-> timer.se,
                ids |-> Filtered(timer.se, blocking_activity_ids(timer.pid, "default")),
                blockers |-> pg_blocking_pids(timer.pid, timer.a),
                fired |-> timer.fired, at |-> now, start |-> timer.start]
    /\ UNCHANGED <<tl, frames, exc, dec, now, settings>>

\* _prioritize_bg_task (core.py:480-486) does its work and returns or
\* raises: the periodic timer keeps the exception and ends (core.py:492-496),
\* or waits again; the one-shot timer ends.
fire_end ==
    /\ timer.pc = "firing"
    /\ IF timer.se.filters = "bad"
       THEN /\ timer' = [timer EXCEPT !.pc = "done", !.fired = @ + 1,
                                      !.exc = IF timer.periodic THEN "FieldError" ELSE @]
            /\ UNCHANGED <<txst, held, sp, guc, pend>>
       ELSE /\ timer' = [timer EXCEPT !.pc = IF timer.periodic THEN "waiting" ELSE "done",
                                      !.fired = @ + 1,
                                      !.due = now + timer.interval]
            /\ Killed(timer.se,
                      Filtered(timer.se, blocking_activity_ids(timer.pid, "default")))
    /\ sent' = <<>>
    /\ last' = [op |-> "fire", se |-> timer.se,
                ids |-> Filtered(timer.se, blocking_activity_ids(timer.pid, "default")),
                blockers |-> pg_blocking_pids(timer.pid, timer.a),
                fired |-> timer.fired, at |-> now, start |-> timer.start]
    /\ UNCHANGED <<tl, frames, exc, dec, now, settings>>

----------------------------------------------------------------------------
(* The calling code *)

\* A statement the calling code sends through a cursor fails (as the
\* IntegrityError of test_core.py:43, 53, 273 does): inside a transaction
\* the transaction is aborted.
stmt_fail(t, a) ==
    /\ Running(t)
    /\ in_transaction(t, a)
    /\ LET c == Send(Ctx(t, a), "insert", 0)
       IN Apply(Fail(c, IF Refused(c) THEN RefusalError(c) ELSE "IntegrityError"))
    /\ UNCHANGED <<frames, pend, dec, timer, now, settings>>

\* A statement of the calling code that the backend can carry out
\* (User.objects.exists(), test_core.py:216, 222); it is refused while the
\* transaction is aborted.
stmt(t, a) ==
    /\ Running(t)
    /\ LET c == Send(Ctx(t, a), "select", 0)
       IN Apply(IF Refused(c) THEN Fail(c, RefusalError(c)) ELSE c)
    /\ UNCHANGED <<frames, pend, dec, timer, now, settings>>

\* The calling code runs a statement that takes its time (SELECT pg_sleep).
sleep_begin(t, a) ==
    /\ Running(t)
    /\ IF Refused(Ctx(t, a))
       THEN Apply(Fail(Send(Ctx(t, a), "pg_sleep", 0), RefusalError(Ctx(t, a))))
            /\ pend' = pend
       ELSE Apply(Send(Ctx(t, a), "pg_sleep", 0))
            /\ pend' = [pend EXCEPT ![t] =
                          [kind |-> "sleep", a |-> a, kill |-> "none", since |-> now]]
    /\ UNCHANGED <<frames, dec, timer, now, settings>>

\* The statement returns.
sleep_end(t) ==
    /\ pend[t].kind = "sleep"
    /\ pend[t].kill = "none"
    /\ pend' = [pend EXCEPT ![t] = NoPend]
    /\ sent' = <<>>
    /\ last' = NoCall
    /\ UNCHANGED <<tl, frames, exc, guc, txst, sp, held, dec, timer, now, settings>>

\* The statement thread t waits for was cancelled, or its backend was
\* terminated: the statement fails with that error.
statement_killed(t) ==
    /\ pend[t].kind # "none"
    /\ pend[t].kill # "none"
    /\ CASE pend[t].kind = "model" -> model_resume(t, pend[t].kill)
         [] pend[t].kind = "advisory" -> advisory_resume(t, pend[t].kill)
         [] OTHER ->
              /\ Apply(Fail(Ctx(t, pend[t].a), pend[t].kill))
              /\ pend' = [pend EXCEPT ![t] = NoPend]
              /\ UNCHANGED <<frames, dec, timer, now, settings>>

\* The calling code raises an exception of its own.
py_raise(t) ==
    /\ Running(t)
    /\ frames[t] # <<>>
    /\ exc' = [exc EXCEPT ![t] = "AssertionError"]
    /\ sent' = <<>>
    /\ last' = NoCall
    /\ UNCHANGED <<tl, frames, guc, txst, sp, held, pend, dec, timer, now, settings>>

\* The calling code catches the exception (test_core.py:44, 54, 274).
py_catch(t) ==
    /\ exc[t] # "none"
    /\ exc' = [exc EXCEPT ![t] = "none"]
    /\ sent' = <<>>
    /\ last' = NoCall
    /\ UNCHANGED <<tl, frames, guc, txst, sp, held, pend, dec, timer, now, settings>>

----------------------------------------------------------------------------
(* The named configurations (src/pglock/config.py) *)

\* Python values found in a configuration dict: None, a bool, an int, a str
\* and a list of str.
PyVal(ty, b, n, str, l) == [ty |-> ty, b |-> b, n |-> n, s |-> str, l |-> l]
NoneVal == PyVal("NoneType", FALSE, 0, "", <<>>)
PyBool(b) == PyVal("bool", b, 0, "", <<>>)
PyI(n) == PyVal("int", FALSE, n, "", <<>>)
PyStr(str) == PyVal("str", FALSE, 0, str, <<>>)
PyList(l) == PyVal("list", FALSE, 0, "", l)

\* bool(v).
truthy(v) ==
    CASE v.ty = "bool" -> v.b
      [] v.ty = "int" -> v.n # 0
      [] v.ty = "str" -> v.s # ""
      [] v.ty = "list" -> v.l # <<>>
      [] OTHER -> FALSE

\* A dict is a function from its keys; {} is the function without keys.
EmptyDict == [k \in {} |-> NoneVal]

\* d.get(k).
dict_get(d, k) == IF k \in DOMAIN d THEN d[k] ELSE NoneVal

\* The dict d after d.update(**o).
dict_update(d, o) ==
    [k \in DOMAIN d \cup DOMAIN o |-> IF k \in DOMAIN o THEN o[k] ELSE d[k]]

\* src/settings.py:28-37.
PGLOCK_CONFIGS ==
    [c \in {"special-fields", "bad-pid", "kill-long-blocking"} |->
       CASE c = "special-fields" -> [attributes |-> PyList(<<"activity_id">>)]
         [] c = "bad-pid" -> [filters |-> PyList(<<"activity_id=-1">>)]
         [] OTHER -> [filters |-> PyList(<<"activity__duration__gt=1 minute">>),
                      yes |-> PyBool(TRUE),
                      blocking |-> PyBool(TRUE),
                      terminate |-> PyBool(TRUE)]]

\* config.py:6-20, 23-35 and 43-45: the settings file sets none of
\* PGLOCK_ATTRIBUTES, PGLOCK_BLOCKING_ATTRIBUTES and PGLOCK_LIMIT.
attributes ==
    PyList(<<"activity_id", "activity__duration", "granted", "mode", "rel_kind",
             "rel_name", "activity__context", "activity__query">>)
blocking_attributes ==
    PyList(<<"activity_id", "blocking_activity_id", "activity__context",
             "blocking_activity__context", "activity__query",
             "blocking_activity__query">>)
limit == PyI(25)

\* config.py:38-40.
configs == settings.PGLOCK_CONFIGS

\* config.py:60: the overrides whose value is true.
kept(overrides) ==
    [k \in {k \in DOMAIN overrides : truthy(overrides[k])} |-> overrides[k]]

\* config.py:62-66: limit and attributes are filled in when they are missing.
with_defaults(cfg) ==
    LET c1 == IF "limit" \in DOMAIN cfg THEN cfg
              ELSE dict_update(cfg, [limit |-> limit])
    IN  IF "attributes" \in DOMAIN c1 THEN c1
        ELSE dict_update(c1, [attributes |-> IF ~truthy(dict_get(c1, "blocking"))
                                              THEN attributes
                                              ELSE blocking_attributes])

\* config.get(name, **overrides) (config.py:48-68) with the configurations
\* cfgs in the settings: what it raises, the dict it returns, and the
\* configurations afterwards. cfg is a new dict when name is empty or None
\* (line 51) and the dict in the settings itself otherwise (line 55), so
\* that lines 60-66 write into the settings.
get(cfgs, name, overrides) ==
    IF ~truthy(name)
    THEN [err |-> "none", ret |-> with_defaults(dict_update(EmptyDict, kept(overrides))),
          configs |-> cfgs]
    ELSE IF name.s \notin DOMAIN cfgs
    THEN [err |-> "ValueError", ret |-> EmptyDict, configs |-> cfgs]
    ELSE LET cfg == with_defaults(dict_update(cfgs[name.s], kept(overrides)))
         IN  [err |-> "none", ret |-> cfg,
              configs |-> [cfgs EXCEPT ![name.s] = cfg]]

----------------------------------------------------------------------------
(* Nested timeout scopes and atomic blocks of one thread on one session *)

TimeoutArgs == {Td(us) : us \in Durations} \cup {TNone}

InitBase ==
    /\ tl = [t \in Threads |-> PyNone]
    /\ frames = [t \in Threads |-> <<>>]
    /\ exc = [t \in Threads |-> "none"]
    /\ guc = [t \in Threads |-> [a \in Aliases |-> ResetVal]]
    /\ txst = [t \in Threads |-> [a \in Aliases |-> "idle"]]
    /\ sp = [t \in Threads |-> [a \in Aliases |-> <<>>]]
    /\ held = [t \in Threads |-> [a \in Aliases |-> [k \in Keys |-> 0]]]
    /\ pend = [t \in Threads |-> NoPend]
    /\ sent = <<>>
    /\ last = NoCall
    /\ timer = NoTimer
    /\ now = 0
    /\ settings = [PGLOCK_CONFIGS |-> PGLOCK_CONFIGS]

\* No decorated function is in use: dec is an object nobody enters.
Init ==
    /\ InitBase
    /\ dec = advisory_init(LId(Small(1)), FALSE, FALSE, "default", Td(0), Skip, TRUE)

\* One thread nests timeout scopes and atomic blocks on one session, sends
\* statements that fail, raises and catches.
NextTimeout ==
    \/ \E timeout \in TimeoutArgs : lock_timeout_enter("T1", "default", timeout)
    \/ lock_timeout_exit("T1")
    \/ atomic_enter("T1", "default")
    \/ atomic_exit("T1")
    \/ stmt_fail("T1", "default")
    \/ py_raise("T1")
    \/ py_catch("T1")

SpecTimeout == Init /\ [][NextTimeout]_vars

\* The value of the innermost timeout scope thread t has open on alias a, or
\* the value the session had before any scope was entered.
ScopeValue(t, a) ==
    LET idx == {i \in 1..Len(frames[t]) :
                   frames[t][i].k = "timeout" /\ frames[t][i].a = a}
    IN IF idx = {} THEN ResetVal
       ELSE frames[t][CHOOSE i \in idx : \A j \in idx : j <= i].val

\* A step in which thread t leaves a timeout scope.
IsTimeoutExit(t) ==
    /\ frames[t] # <<>>
    /\ Top(frames[t]).k = "timeout"
    /\ frames'[t] = Pop(frames[t])

\* A step in which thread t leaves an atomic block on alias a.
IsAtomicExit(t, a) ==
    /\ frames[t] # <<>>
    /\ Top(frames[t]).k = "atomic"
    /\ Top(frames[t]).a = a
    /\ frames'[t] = Pop(frames[t])

\* C1: for properly nested timeout scopes of one thread on one session,
\* whenever the session accepts statements (its transaction is not aborted)
\* its lock_timeout is the value of the innermost scope still open, and the
\* value from before the outermost scope once all of them have exited.
C1_NestedScopesRestore ==
    txst["T1"]["default"] # "inerror"
        => guc["T1"]["default"] = ScopeValue("T1", "default")

\* C1 witness: an inner scope has just exited and its restore statement put
\* back the 1 ms of the scope around it, which is still open.
C1_Witness ==
    /\ sent = <<Stmt("T1", "default", "restore", 1)>>
    /\ Len(frames["T1"]) = 1
    /\ frames["T1"][1].k = "timeout"
    /\ frames["T1"][1].val = 1
    /\ guc["T1"]["default"] = 1

\* C2 (as amended): a timeout scope that exits while the transaction is
\* aborted sends no statement, raises nothing and leaves lock_timeout alone;
\* when the aborted transaction or savepoint is then rolled back, lock_timeout
\* is the value from before the outermost scope that exited inside it.
C2_ErroredExitSkipsRestore ==
    [][/\ (IsTimeoutExit("T1") /\ txst["T1"][Top(frames["T1"]).a] = "inerror")
            => (sent' = <<>> /\ exc' = exc /\ guc' = guc)
       /\ (IsAtomicExit("T1", "default") /\ Top(sp["T1"]["default"]).skipped)
            => guc'["T1"]["default"] = Top(sp["T1"]["default"]).skipPre]_vars

\* C2 witness: a scope has exited in an aborted transaction without a
\* statement, and the rollback is still to come.
C2_Witness ==
    /\ sp["T1"]["default"] # <<>>
    /\ Top(sp["T1"]["default"]).skipped
    /\ txst["T1"]["default"] = "inerror"
    /\ sent = <<>>
    /\ tl["T1"] = PyNone

\* C2 as stated: after the rollback, lock_timeout is the value from before
\* every scope that exited in the aborted transaction, inner ones included.
C2_Original ==
    [][IsAtomicExit("T1", "default")
          => \A p \in Top(sp["T1"]["default"]).skipAll :
                guc'["T1"]["default"] = p]_vars

----------------------------------------------------------------------------
(* Two threads, each with its own session on the default database, take    *)
(* advisory locks on one identifier, inside and outside transactions and   *)
(* timeout scopes                                                          *)

\* Thread t has a block of kind k open.
HasFrame(t, k) == \E i \in 1..Len(frames[t]) : frames[t][i].k = k

\* What T1 runs: with-blocks and decorated functions, with the default
\* (Return, Raise for a function), with Raise and with Skip; without a
\* timeout, non-blocking, and with a timeout of one millisecond.
AdvisoryBlocks ==
    {advisory_init(LId(Small(1)), FALSE, FALSE, "default", tmo, se, FALSE) :
        tmo \in {_unset, Td(0), Td(1000)}, se \in {None, Raise}}
AdvisoryFuncs ==
    {advisory_init(LId(Small(1)), FALSE, FALSE, "default", tmo, Skip, TRUE) :
        tmo \in {_unset, Td(1000)}}

\* What T2 runs: non-blocking with-blocks outside transactions.
AdvisoryTries ==
    {advisory_init(LId(Small(1)), FALSE, FALSE, "default", Td(0), se, FALSE) :
        se \in {None, Raise}}

\* T1 runs "with advisory" or a decorated function, by itself or inside
\* "with atomic", inside "with timeout"; T2 makes its non-blocking tries.
NextAdvisory ==
    \/ \E ob \in AdvisoryBlocks \cup AdvisoryFuncs :
          ~HasFrame("T1", "advisory") /\ advisory_enter("T1", FALSE, ob)
    \/ \E ob \in AdvisoryTries :
          frames["T2"] = <<>> /\ advisory_enter("T2", FALSE, ob)
    \/ advisory_call("T1")
    \/ \E t \in Threads : advisory_exit(t)
    \/ lock_granted("T1")
    \/ lock_wait_timeout("T1")
    \/ statement_cancelled("T1")
    \/ frames["T1"] = <<>> /\ lock_timeout_enter("T1", "default", Td(1000))
    \/ lock_timeout_exit("T1")
    \/ /\ ~HasFrame("T1", "atomic")
       /\ ~HasFrame("T1", "advisory")
       /\ atomic_enter("T1", "default")
    \/ atomic_exit("T1")
    \/ stmt("T1", "default")
    \/ stmt_fail("T1", "default")
    \/ \E t \in Threads : py_catch(t)

SpecAdvisory == Init /\ [][NextAdvisory]_vars

\* Session (t, "default") holds the exclusive lock on identifier 1.
HoldsExclusive(t) == HoldsKey(t, "default", <<Small(1), FALSE>>)

Other(t) == CHOOSE u \in Threads : u # t

\* C3: of two sessions that make non-blocking exclusive requests for one
\* identifier at most one holds the lock; a non-blocking request never waits;
\* made while the other session holds the lock it finds the lock taken, and
\* then returns False under Return and raises OperationalError under Raise.
C3_NoWaitExclusive ==
    /\ ~(HoldsExclusive("T1") /\ HoldsExclusive("T2"))
    /\ \A t \in Threads : pend[t].kind = "advisory" => ~pend[t].ob.nowait
    /\ (last.op = "acquire" /\ last.nowait /\ ~last.shared)
         => /\ last.out \in {"granted", "false", "pre"}
            /\ (HoldsExclusive(Other(last.t)) /\ last.out # "pre")
                  => last.out = "false"
            /\ last.out = "false"
                  => IF last.se = Raise
                     THEN last.ret = "raise" /\ last.err = "OperationalError"
                     ELSE last.ret = "False"

\* C3 witness: T2 holds the lock and the non-blocking request of T1 under
\* Raise has just raised OperationalError.
C3_Witness ==
    /\ HoldsExclusive("T2")
    /\ last.op = "acquire" /\ last.t = "T1" /\ last.nowait
    /\ last.se = Raise /\ last.out = "false" /\ last.err = "OperationalError"

\* C4: an acquire inside a transaction with Return or Skip that fails because
\* the lock wait timed out, under a timeout of its own or under the ambient
\* one, does not leave the transaction aborted.
C4_FailedAcquireKeepsTransaction ==
    (last.op = "acquire" /\ last.intx /\ last.se # Raise
        /\ last.out = "LockNotAvailable")
      => txst[last.t][last.a] # "inerror"

\* C5: leaving the scope of a session-level lock sends exactly one unlock
\* statement when the lock was acquired, as the last statement of the exit
\* and with success (the session gives up its hold), and none when it was not.
IsAdvisoryExit(t) ==
    /\ frames[t] # <<>>
    /\ Top(frames[t]).k = "advisory"
    /\ frames'[t] = Pop(frames[t])

IsUnlock(st) == st.sql \in {"pg_advisory_unlock", "pg_advisory_unlock_shared"}

C5_ExitReleasesOnce ==
    [][\A t \in Threads :
          (IsAdvisoryExit(t) /\ ~Top(frames[t]).ob.xact)
            => IF Top(frames[t]).got
               THEN /\ Len(SelectSeq(sent', IsUnlock)) = 1
                    /\ IsUnlock(sent'[Len(sent')])
                    /\ exc'[t] = exc[t]
                    /\ held'[t][Top(frames[t]).a][KeyOf(Top(frames[t]).ob)]
                          = held[t][Top(frames[t]).a][KeyOf(Top(frames[t]).ob)] - 1
               ELSE Len(SelectSeq(sent', IsUnlock)) = 0]_vars

\* C6: an error of the acquire statement that is not a lock timeout, such as
\* the cancellation of the statement, is propagated under every side effect.
C6_OtherErrorsPropagate ==
    (last.op = "acquire" /\ last.out = "QueryCanceled")
      => last.ret = "raise" /\ last.err = "QueryCanceled"

\* C8: acquire ends by returning True, by returning False or by raising.
\* Under Raise it does not return False: a non-blocking request that found
\* the lock taken raises OperationalError and a wait that timed out raises
\* the backend's error. Under Return or Skip both give False.
C8_AcquireOutcomes ==
    last.op = "acquire"
      => /\ last.ret \in {"True", "False", "raise"}
         /\ last.ret = "raise" <=> last.err # "none"
         /\ last.ret = "True" <=> last.out = "granted"
         /\ last.se = Raise
              => /\ last.ret # "False"
                 /\ last.out = "false" => last.err = "OperationalError"
                 /\ last.out = "LockNotAvailable" => last.err = "LockNotAvailable"
         /\ (last.se # Raise /\ last.out \in {"false", "LockNotAvailable"})
              => last.ret = "False"

\* C8 witness: a wait under Skip has timed out and acquire returned False.
C8_Witness ==
    /\ last.op = "acquire" /\ last.se = Skip
    /\ last.out = "LockNotAvailable" /\ last.ret = "False"

----------------------------------------------------------------------------
(* Two threads call one decorated function: the calls share its object     *)

\* @pglock.advisory(1, side_effect=pglock.Skip, timeout=...) def func
DecoratedFuncs ==
    {advisory_init(LId(Small(1)), FALSE, FALSE, "default", tmo, Skip, TRUE) :
        tmo \in {Td(0), Td(1000)}}

InitDecorator == InitBase /\ dec \in DecoratedFuncs

\* A thread calls the function: the wrapper enters the shared object, lets
\* the function run or skips it, and leaves the object.
NextDecorator ==
    \/ \E t \in Threads : frames[t] = <<>> /\ advisory_enter(t, TRUE, dec)
    \/ \E t \in Threads : advisory_call(t)
    \/ \E t \in Threads : advisory_exit(t)
    \/ \E t \in Threads : lock_granted(t)
    \/ \E t \in Threads : lock_wait_timeout(t)

SpecDecorator == InitDecorator /\ [][NextDecorator]_vars

\* C7: with Skip, a call of the decorated function runs the function only
\* if the acquire of that call got the lock.
C7_SkipRunsOnlyWithLock ==
    \A t \in Threads :
        \A i \in 1..Len(frames[t]) :
            (frames[t][i].k = "advisory" /\ frames[t][i].func
                /\ frames[t][i].checked /\ frames[t][i].ran)
              => frames[t][i].got

----------------------------------------------------------------------------
(* T1 locks a table inside pglock.prioritize while T2 holds a lock on it,   *)
(* with the timer thread and the clock                                     *)

MaxTime == 4

\* The prioritize blocks of T1: intervals of 100 and 300 ms, periodic and
\* one-shot, without a timeout and with one of 100 ms (test_core.py:461-464),
\* terminating or cancelling, with the three kinds of filters.
Intervals == {Td(100000), Td(300000)}
PrioritizeTimeouts == {_unset, Td(100000)}
PrioritizeSideEffects ==
    {Terminate, WithFilters(Terminate, "nothing"), WithFilters(Terminate, "bad"),
     WithFilters(Cancel, "all")}

\* pglock.model("auth.User", timeout=..., side_effect=pglock.Raise) of T1
\* (test_core.py:389-393, 465-468) and pglock.model("auth.User", timeout=0)
\* of T2 (test_core.py:400).
ProtectedLocks ==
    {model_args({"auth_user"}, "ACCESS EXCLUSIVE", "default", tmo, Raise) :
        tmo \in {_unset, Td(300000)}}
BlockingLock == model_args({"auth_user"}, "ACCESS EXCLUSIVE", "default", Td(0), Return)

\* Time passes. It does not while a thread has something to do at once: the
\* timer thread to begin its run, to fire or to finish a firing, the backend
\* to grant a lock that is free, to abort a statement whose lock_timeout is
\* over, or to fail a statement that was killed.
Tick ==
    /\ now < MaxTime
    /\ timer.pc \in {"waiting"} \/ \E t \in Threads : pend[t].kind # "none"
    /\ timer.pc \notin {"started", "firing"}
    /\ (timer.pc = "waiting" /\ ~timer.finished) => now < timer.due
    /\ \A t \in Threads :
          pend[t].kind = "model"
            => /\ pend[t].kill = "none"
               /\ RelBlockers(t, pend[t].a, pend[t].m.models, pend[t].m.mode) # {}
               /\ ~CanAdvance(t)
               /\ guc[t][pend[t].a] > 0 => now < Deadline(t)
    /\ \A t \in Threads : pend[t].kind = "sleep" => pend[t].kill = "none"
    /\ now' = now + 1
    /\ sent' = <<>>
    /\ last' = NoCall
    /\ UNCHANGED <<tl, frames, exc, guc, txst, sp, held, pend, dec, timer, settings>>

\* T1, once: with transaction.atomic(): with pglock.prioritize(...):
\* pglock.model(...). T2, before T1 enters its prioritize block: with
\* transaction.atomic(): pglock.model(..., timeout=0), and then statements,
\* among them one that takes its time.
NextPrioritize ==
    \/ frames["T1"] = <<>> /\ timer.pc = "idle" /\ atomic_enter("T1", "default")
    \/ \E interval \in Intervals, periodic \in BOOLEAN,
          timeout \in PrioritizeTimeouts, se \in PrioritizeSideEffects :
          /\ timer.pc = "idle"
          /\ prioritize_enter("T1", "default", interval, periodic, timeout, se)
    \/ \E m \in ProtectedLocks :
          /\ HasFrame("T1", "prioritize")
          /\ HoldsRel("T1", "default") = {}
          /\ model("T1", m)
    \/ prioritize_exit("T1")
    \/ model_granted("T1")
    \/ model_wait_timeout("T1")
    \/ frames["T2"] = <<>> /\ timer.pc = "idle" /\ atomic_enter("T2", "default")
    \/ HoldsRel("T2", "default") = {} /\ model("T2", BlockingLock)
    \/ HoldsRel("T2", "default") # {} /\ sleep_begin("T2", "default")
    \/ sleep_end("T2")
    \/ txst["T2"]["default"] = "closed" /\ stmt("T2", "default")
    \/ statement_killed("T2")
    \/ \E t \in Threads : atomic_exit(t)
    \/ \E t \in Threads : frames[t] = <<>> /\ py_catch(t)
    \/ timer_run
    \/ timer_stop
    \/ fire_begin
    \/ fire_end
    \/ Tick

SpecPrioritize == Init /\ [][NextPrioritize]_vars

\* The first firing of the timer has just ended.
FirstFiring == last.op = "fire" /\ last.fired = 0

\* T1 has just got the answer to a LOCK TABLE it had to wait for.
WaitEnded == last.op = "model" /\ last.t = "T1" /\ last.waited

C10_WatcherFailureReraised ==
    /\ (timer.periodic /\ timer.se.filters = "bad" /\ timer.fired > 0)
         => timer.exc = "FieldError" /\ timer.pc = "done" /\ timer.fired = 1
    /\ (last.op = "prioritize" /\ last.periodic /\ last.cause = "FieldError")
         => last.err = "RuntimeError"

\* C10 witness: the block ends with the lock timeout of its LOCK TABLE after
\* a firing has failed, and RuntimeError comes out of it.
C10_Witness ==
    /\ last.op = "prioritize" /\ last.periodic
    /\ last.body = "LockNotAvailable" /\ last.cause = "FieldError"
    /\ last.err = "RuntimeError"

\* C11: in one-shot mode too, a firing whose side effect raised before the
\* block ended makes the end of the block raise RuntimeError.
C11_OneShotFailureSurfaced ==
    (last.op = "prioritize" /\ ~timer.periodic
        /\ timer.se.filters = "bad" /\ timer.fired = 1)
      => last.err = "RuntimeError"

\* C12: a firing that ends with a failure ends before the timer is
\* cancelled: the end of the block waits for a firing in flight, so that
\* cancel finds the exception the firing stored.
C12_ShutdownWaitsForFiring ==
    (last.op = "fire" /\ timer.periodic /\ timer.exc = "FieldError")
      => ~timer.finished

----------------------------------------------------------------------------
(* Timeout scopes of two threads, T1 on two database aliases               *)

MaxScopes == 2

\* T1 nests scopes on the sessions it has on "default" and on "other", of
\* 2.5 ms on the one and of 1 ms on the other; T2 nests scopes of either
\* duration on its session on "default".
NextSessions ==
    \/ \E a \in Aliases :
          /\ Len(frames["T1"]) < MaxScopes
          /\ lock_timeout_enter("T1", a, IF a = "default" THEN Td(2500) ELSE Td(1000))
    \/ \E timeout \in TimeoutArgs \ {TNone} :
          Len(frames["T2"]) < MaxScopes /\ lock_timeout_enter("T2", "default", timeout)
    \/ \E t \in Threads : lock_timeout_exit(t)

SpecSessions == Init /\ [][NextSessions]_vars

\* C13: leaving a timeout scope on a session puts that session back to the
\* lock_timeout it had before the scope was entered, and entering or
\* leaving a scope on one session leaves the thread's other sessions alone.
C13_RestorePerSession ==
    [][\A t \in Threads :
          /\ IsTimeoutExit(t)
                => guc'[t][Top(frames[t]).a] = Top(frames[t]).pre
          /\ \A a \in Aliases :
                (sent' # <<>> /\ sent'[1].t = t /\ sent'[1].a # a)
                   => guc'[t][a] = guc[t][a]]_vars

\* C14: a step of one thread changes neither _timeout.value nor the
\* lock_timeout of the other thread, and the thread that nests its scopes on
\* one session always has the value of its innermost open scope recorded
\* and in effect (the reset value and None when it has none open).
C14_ThreadsDoNotInterfere ==
    /\ [](/\ guc["T2"]["default"] = ScopeValue("T2", "default")
          /\ tl["T2"] = IF frames["T2"] = <<>> THEN PyNone
                         ELSE Top(frames["T2"]).val)
    /\ [][\A t \in Threads :
             frames'[t] = frames[t] => (tl'[t] = tl[t] /\ guc'[t] = guc[t])]_vars

\* C14 witness: while T1 has a scope of 2 ms open, T2 has just left its
\* inner scope and restored the 1 ms of its outer one.
C14_Witness ==
    /\ sent = <<Stmt("T2", "default", "restore", 1)>>
    /\ Len(frames["T2"]) = 1 /\ guc["T2"]["default"] = 1 /\ tl["T2"] = 1
    /\ frames["T1"] # <<>> /\ tl["T1"] = 2

----------------------------------------------------------------------------
(* The arguments of pglock.timeout *)

\* What callers pass as a timeout: nothing, None, a value of a wrong type,
\* and durations in microseconds from zero and one microsecond up to a second
\* and a millisecond (test_core.py:62-77).
ArgTimeouts ==
    {_unset, TNone, TStr} \cup {Td(us) : us \in {0, 1, 999, 1000, 1999, 2500, 1001000}}

\* One thread enters timeout scopes with any of these arguments, leaves
\* them, and catches what they raise.
NextArgs ==
    \/ \E a \in Aliases, timeout \in ArgTimeouts :
          Len(frames["T1"]) < MaxScopes /\ lock_timeout_enter("T1", a, timeout)
    \/ lock_timeout_exit("T1")
    \/ py_catch("T1")

SpecArgs == Init /\ [][NextArgs]_vars

\* C15: pglock.timeout raises ValueError for a missing value, TypeError for
\* a value of a wrong type and ValueError for a duration below one
\* millisecond, each time sending nothing and leaving _timeout.value and the
\* session alone; None installs lock_timeout 0 and a duration of at least a
\* millisecond installs its whole number of milliseconds.
C15_TimeoutArguments ==
    [][\A a \in Aliases, timeout \in ArgTimeouts :
          lock_timeout_enter("T1", a, timeout) =>
             IF timeout.kind = "td" /\ timeout.us >= 1000
             THEN /\ sent' = <<Stmt("T1", a, "set_config", timeout.us \div 1000)>>
                  /\ guc'["T1"][a] = timeout.us \div 1000
                  /\ exc'["T1"] = "none"
             ELSE IF timeout.kind = "none"
             THEN /\ sent' = <<Stmt("T1", a, "set_config", 0)>>
                  /\ guc'["T1"][a] = 0
                  /\ exc'["T1"] = "none"
             ELSE /\ exc'["T1"] = (IF timeout.kind = "td" \/ timeout.kind = "unset"
                                   THEN "ValueError" ELSE "TypeError")
                  /\ sent' = <<>>
                  /\ tl' = tl /\ guc' = guc /\ frames' = frames]_vars

----------------------------------------------------------------------------
(* The arguments of pglock.advisory and pglock.model *)

\* Durations that are not zero and below one millisecond, or negative.
SubMs == {Td(1), Td(999), Td(0 - 1000)}

\* with pglock.advisory(...) and calls of functions decorated with it, as
\* test_core.py:80-107 writes them and as they should be written.
UsageAdvisory ==
    {advisory_init(id, FALSE, FALSE, "default", tmo, se, func) :
        id \in {LId(Small(1)), LOther}, tmo \in {_unset, TStr, Td(1000)} \cup SubMs,
        se \in {None, Return, Raise, Skip, Terminate}, func \in BOOLEAN}
      \cup {advisory_init(LNone, FALSE, FALSE, "default", _unset, se, FALSE) :
               se \in {None, Raise}}

\* pglock.model(...) as test_core.py:292-303 calls it and as it should be
\* called.
UsageModels ==
    {model_args(models, "ACCESS EXCLUSIVE", "default", tmo, se) :
        models \in {{}, {"auth_user"}}, tmo \in {_unset, TStr, Td(1000)} \cup SubMs,
        se \in {Return, Instance(Raise), Skip}}

\* One thread makes these calls, outside transactions and inside one.
NextUsage ==
    \/ \E ob \in UsageAdvisory :
          ~HasFrame("T1", "advisory") /\ advisory_enter("T1", FALSE, ob)
    \/ advisory_call("T1")
    \/ advisory_exit("T1")
    \/ \E m \in UsageModels : model("T1", m)
    \/ frames["T1"] = <<>> /\ atomic_enter("T1", "default")
    \/ atomic_exit("T1")
    \/ py_catch("T1")

SpecUsage == Init /\ [][NextUsage]_vars

\* C16: an advisory request and a model request whose timeout is not zero
\* and below one millisecond, or negative, raise an input error and send no
\* statement.
C16_SubMillisecondRejected ==
    [][\A tmo \in SubMs :
          /\ \A se \in {None, Raise} :
                advisory_enter("T1", FALSE,
                               advisory_init(LId(Small(1)), FALSE, FALSE, "default", tmo, se, FALSE))
                  => exc'["T1"] \in {"ValueError", "TypeError"} /\ sent' = <<>>
          /\ \A se \in {Return, Instance(Raise)} :
                (/\ in_transaction("T1", "default")
                 /\ model("T1", model_args({"auth_user"}, "ACCESS EXCLUSIVE",
                                           "default", tmo, se)))
                  => exc'["T1"] \in {"ValueError", "TypeError"} /\ sent' = <<>>]_vars

\* The errors pglock.advisory is to raise for an object: for a
\* missing identifier, an identifier of a wrong type, a side effect that is
\* none of Return, Raise and Skip, Skip on a with-block, Return on a
\* decorated function, and a timeout of a wrong type.
UsageErrors(ob) ==
    (IF ob.lock_id.kind = "none" /\ ~ob.func THEN {"ValueError"} ELSE {})
      \cup (IF ob.lock_id.kind = "other" THEN {"TypeError"} ELSE {})
      \cup (IF ob.side_effect \notin {None, Return, Raise, Skip}
            THEN {"ValueError"} ELSE {})
      \cup (IF ~ob.func /\ ob.side_effect = Skip THEN {"ValueError"} ELSE {})
      \cup (IF ob.func /\ ob.side_effect = Return THEN {"ValueError"} ELSE {})
      \cup (IF ob.timeout.kind = "TypeError" THEN {"TypeError"} ELSE {})

ModelErrors(t, m) ==
    (IF m.timeout.kind = "TypeError" THEN {"TypeError"} ELSE {})
      \cup (IF m.side_effect \notin {Return, Raise} THEN {"ValueError"} ELSE {})
      \cup (IF m.models = {} THEN {"ValueError"} ELSE {})
      \cup (IF ~in_transaction(t, m.using) THEN {"RuntimeError"} ELSE {})

\* C20: a call of model with one of these errors raises it, sends no
\* statement and leaves the session and _timeout.value alone; outside a
\* transaction a call that is otherwise right raises RuntimeError.
C20_ModelUsageErrors ==
    [][\A m \in UsageModels :
          (model("T1", m) /\ ModelErrors("T1", m) # {})
             => /\ exc'["T1"] \in ModelErrors("T1", m)
                /\ sent' = <<>>
                /\ guc' = guc /\ held' = held /\ txst' = txst /\ sp' = sp /\ tl' = tl]_vars

\* C20 witness: a call of model outside a transaction has just raised
\* RuntimeError and nothing was sent.
C20_Witness ==
    /\ last.op = "usage" /\ last.call = "model" /\ last.err = "RuntimeError"
    /\ ~in_transaction("T1", "default")
    /\ exc["T1"] = "RuntimeError" /\ sent = <<>>

----------------------------------------------------------------------------
(* Transaction-scoped advisory locks *)

\* pglock.advisory(1, xact=True, ...): without a timeout, non-blocking and
\* with a timeout of one millisecond, under the default and under Raise
\* (core.py:241-263).
XactLocks ==
    {advisory_init(LId(Small(1)), FALSE, TRUE, "default", tmo, se, FALSE) :
        tmo \in {_unset, Td(0), Td(1000)}, se \in {None, Raise}}

\* T1 uses these objects as with-blocks and through acquire and release,
\* outside transactions and inside atomic blocks; T2 makes non-blocking
\* tries for the session-level lock on the same identifier.
NextXact ==
    \/ \E ob \in XactLocks :
          ~HasFrame("T1", "advisory") /\ advisory_enter("T1", FALSE, ob)
    \/ \E ob \in XactLocks : advisory_acquire("T1", ob)
    \/ \E ob \in XactLocks : advisory_release("T1", ob)
    \/ \E t \in Threads : advisory_exit(t)
    \/ lock_granted("T1")
    \/ lock_wait_timeout("T1")
    \/ /\ Len(frames["T1"]) < MaxScopes
       /\ ~HasFrame("T1", "advisory")
       /\ atomic_enter("T1", "default")
    \/ atomic_exit("T1")
    \/ py_raise("T1")
    \/ py_catch("T1")
    \/ \E ob \in AdvisoryTries :
          frames["T2"] = <<>> /\ advisory_enter("T2", FALSE, ob)

SpecXact == Init /\ [][NextXact]_vars

\* The open transaction levels of T1 on "default" hold the xact lock on key k.
XactHeld(k) ==
    \E i \in 1..Len(sp["T1"]["default"]) : k \in sp["T1"]["default"][i].xl

\* C18: release() on an xact object raises RuntimeError and sends nothing;
\* leaving the scope of an xact lock sends no unlock statement; a session
\* stops holding an xact lock only in a step that ends a transaction level,
\* and once its transaction has ended the lock no longer stands in the way
\* of another session.
C18_XactNeverReleasedByHand ==
    [][/\ \A ob \in XactLocks :
             advisory_release("T1", ob)
               => /\ exc'["T1"] = "RuntimeError" /\ sent' = <<>>
                  /\ sp' = sp /\ held' = held
       /\ (IsAdvisoryExit("T1") /\ Top(frames["T1"]).ob.xact)
             => SelectSeq(sent', IsUnlock) = <<>>
       /\ \A k \in Keys :
             (XactHeld(k) /\ ~XactHeld(k)')
               => Len(sp'["T1"]["default"]) < Len(sp["T1"]["default"])
       /\ (Len(sp["T1"]["default"]) > 0 /\ Len(sp'["T1"]["default"]) = 0)
             => \A k \in Keys : ~HoldsKey("T1", "default", k)']_vars

\* C18 witness: release() has just raised RuntimeError on the xact lock that
\* T1's transaction holds, and nothing was sent.
C18_Witness ==
    /\ last.op = "usage" /\ last.call = "release" /\ last.err = "RuntimeError"
    /\ XactHeld(<<Small(1), FALSE>>)
    /\ exc["T1"] = "RuntimeError" /\ sent = <<>>

\* C19: acquire() on an xact object outside a transaction raises
\* RuntimeError and sends nothing; so does entering the with-block of one
\* inside a transaction. A with-block entered outside a transaction runs in
\* a transaction of its own, which holds the lock when it was acquired, and
\* leaving the block ends that transaction.
C19_XactNeedsTransaction ==
    [][/\ \A ob \in XactLocks :
             (advisory_acquire("T1", ob) /\ ~in_transaction("T1", "default"))
               => /\ exc'["T1"] = "RuntimeError" /\ sent' = <<>>
                  /\ sp' = sp /\ held' = held /\ txst' = txst
       /\ \A ob \in XactLocks :
             (advisory_enter("T1", FALSE, ob) /\ in_transaction("T1", "default"))
               => /\ exc'["T1"] = "RuntimeError" /\ sent' = <<>>
                  /\ frames' = frames /\ sp' = sp /\ txst' = txst
       /\ (Len(frames'["T1"]) > Len(frames["T1"]) /\ Top(frames'["T1"]).k = "advisory")
             => /\ Top(frames'["T1"]).ob.tx
                /\ Len(sp'["T1"]["default"]) = 1
                /\ Top(frames'["T1"]).got <=> XactHeld(<<Small(1), FALSE>>)'
       /\ (IsAdvisoryExit("T1") /\ Top(frames["T1"]).ob.tx)
             => /\ ~in_transaction("T1", "default")'
                /\ ~XactHeld(<<Small(1), FALSE>>)']_vars

\* C19 witness: T1 is in the with-block of an xact lock, in the transaction
\* the block opened, which holds the lock.
C19_Witness ==
    /\ frames["T1"] # <<>> /\ Top(frames["T1"]).k = "advisory"
    /\ Top(frames["T1"]).ob.xact /\ Top(frames["T1"]).ob.tx /\ Top(frames["T1"]).got
    /\ Len(sp["T1"]["default"]) = 1 /\ XactHeld(<<Small(1), FALSE>>)
    /\ last.op = "acquire" /\ last.ret = "True"

----------------------------------------------------------------------------
(* T1 locks a table, returning or raising, while T2 holds a lock on it     *)

\* The calls of T1 (test_core.py:313-317, 346-357): without a timeout, with
\* one of 0 and with one of 100 ms, returning and raising.
ModelTimeouts == {_unset, Td(0), Td(100000)}
ModelCalls ==
    {model_args({"auth_user"}, "ACCESS EXCLUSIVE", "default", tmo, se) :
        tmo \in ModelTimeouts, se \in {Return, Raise}}

\* T2: with transaction.atomic(): pglock.model("auth.User", timeout=0)
\* (test_core.py:322-323, 362-363). T1, when it likes inside
\* pglock.timeout(milliseconds=200): with transaction.atomic():
\* pglock.model(...), and then a statement (test_core.py:349).
NextModel ==
    \/ frames["T2"] = <<>> /\ atomic_enter("T2", "default")
    \/ HoldsRel("T2", "default") = {} /\ model("T2", BlockingLock)
    \/ frames["T1"] = <<>> /\ lock_timeout_enter("T1", "default", Td(200000))
    \/ lock_timeout_exit("T1")
    \/ ~HasFrame("T1", "atomic") /\ atomic_enter("T1", "default")
    \/ \E m \in ModelCalls : HoldsRel("T1", "default") = {} /\ model("T1", m)
    \/ model_granted("T1")
    \/ model_wait_timeout("T1")
    \/ stmt("T1", "default")
    \/ \E t \in Threads : atomic_exit(t)
    \/ \E t \in Threads : py_catch(t)
    \/ Tick

SpecModel == Init /\ [][NextModel]_vars

\* LOCK TABLE failed because the lock was not available: after lock_timeout
\* milliseconds of waiting, or at once with NOWAIT.
LockFailed(l) == l.op = "model" /\ l.out = "LockNotAvailable"

\* C21: model() under Return returns True when LOCK TABLE succeeds and False
\* when it fails from a lock timeout or from a NOWAIT conflict with a lock
\* another session holds; after False the transaction of the caller is not
\* aborted and its next statement succeeds. Under Raise the same failure
\* leaves model() as an OperationalError.
C21_ModelReturnOrRaise ==
    [][/\ (last'.op = "model" /\ last'.se = Return /\ last'.out = "granted")
            => last'.ret = "True" /\ exc'[last'.t] = "none"
       /\ (LockFailed(last') /\ last'.se = Return)
            => /\ last'.ret = "False"
               /\ exc'[last'.t] = "none"
               /\ txst'[last'.t][last'.a] = "intrans"
       /\ (LockFailed(last) /\ last.se = Return /\ stmt(last.t, last.a))
            => exc'[last.t] = "none" /\ txst'[last.t][last.a] = "intrans"
       /\ (LockFailed(last') /\ last'.se = Raise)
            => /\ last'.ret = "raise"
               /\ IsOperationalError(last'.err)
               /\ exc'[last'.t] = last'.err]_vars

\* T1 got False from a LOCK TABLE that waited until its lock_timeout ran
\* out, and its transaction goes on.
C21_Witness ==
    /\ LockFailed(last) /\ last.t = "T1" /\ last.se = Return
    /\ last.waited /\ last.explicit /\ last.ret = "False"
    /\ txst["T1"]["default"] = "intrans"

----------------------------------------------------------------------------
(* The timeout of pglock.prioritize *)

\* The innermost block of T1 is a prioritize block with a timeout.
InGuardedSection ==
    /\ frames["T1"] # <<>>
    /\ Top(frames["T1"]).k = "prioritize"
    /\ Top(frames["T1"]).lt

\* The LOCK TABLE of T1, sent without a timeout of its own, has just failed
\* after waiting for lock_timeout milliseconds.
GuardExpired ==
    /\ LockFailed(last) /\ last.t = "T1"
    /\ last.waited /\ ~last.explicit

\* No firing has cancelled or terminated anything of T2.
Untouched(t) ==
    /\ txst[t]["default"] # "closed"
    /\ pend[t].kind # "none" => pend[t].kill = "none"

\* C22 (as amended): the timeout given to prioritize is the lock_timeout of
\* the session wherever the block sends statements, and the value from before
\* is back when the block has ended and the session accepts statements. A
\* LOCK TABLE in the block that waits longer fails with the lock timeout,
\* which leaves prioritize after the timer was cancelled, unless the periodic
\* timer had caught a failure of its own, which is raised in its place as
\* RuntimeError. When the wait began more than the timeout before the first
\* firing, no firing has come by then and the blocking session is untouched.
C22_GuardTimeout ==
    [][/\ (InGuardedSection' /\ pend'["T1"].kind = "none"
              /\ txst'["T1"]["default"] # "inerror")
            => guc'["T1"]["default"] = tl'["T1"] /\ tl'["T1"] # PyNone
       /\ (InGuardedSection /\ prioritize_exit("T1"))
            => /\ tl'["T1"] = Top(frames["T1"]).old
               /\ txst["T1"]["default"] # "inerror"
                    => guc'["T1"]["default"] = Top(frames["T1"]).pre
               /\ timer'.finished
               /\ exc["T1"] = "LockNotAvailable"
                    => exc'["T1"] = IF timer.periodic /\ timer.exc # "none"
                                    THEN "RuntimeError" ELSE "LockNotAvailable"
       /\ frames'["T1"] = <<>> => guc'["T1"]["default"] = ResetVal
       /\ (InGuardedSection' /\ GuardExpired')
            => /\ exc'["T1"] = "LockNotAvailable"
               /\ HoldsRel("T2", "default")' # {}
               /\ last'.since + 1 < timer'.start + timer'.interval
                    => timer'.fired = 0 /\ Untouched("T2")']_vars

\* C22 witness: the block of test_core.py:459-468 has ended with the lock
\* timeout of its LOCK TABLE, before the first firing, and T2 has its lock.
C22_Witness ==
    /\ last.op = "prioritize" /\ last.body = "LockNotAvailable"
    /\ last.err = "LockNotAvailable"
    /\ guc["T1"]["default"] = 100
    /\ timer.finished /\ timer.fired = 0 /\ timer.interval = 3
    /\ HoldsRel("T2", "default") # {} /\ Untouched("T2")

\* C22 as stated: the lock timeout is what leaves prioritize, and with a
\* timeout shorter than the interval no firing has touched the blocking
\* session when the wait runs out.
C22_Original ==
    [][/\ (InGuardedSection /\ prioritize_exit("T1")
              /\ exc["T1"] = "LockNotAvailable")
            => exc'["T1"] = "LockNotAvailable"
       /\ (InGuardedSection' /\ GuardExpired' /\ timer'.interval > 1)
            => Untouched("T2")']_vars

\* The class an exception is caught as: django.db.utils.OperationalError
\* for the errors of the backend that Django raises as such, its own class
\* for the others.
ErrorKind(e) == IF IsOperationalError(e) THEN "OperationalError" ELSE e

\* C23: the exception a prioritize block ends with is of one kind, the
\* OperationalError of a lock timeout under Raise (core.py:471-475), whether
\* a lock statement of the block failed or the timer had caught a failure
\* of its side effect, which cancel reports (core.py:498-502).
C23_SameErrorKind ==
    (/\ last.op = "prioritize"
     /\ last.body = "LockNotAvailable" \/ last.cause \notin {"none", "unset"})
      => ErrorKind(last.err) = "OperationalError"

----------------------------------------------------------------------------
(* pglock.advisory_id on ints and strings *)

\* The arguments: ints around the ends and the middle of the signed 64-bit
\* range, 9223372036854775807 and "hello" (test_core.py:288-289), and
\* strings with one-, two- and three-byte characters, "a" and "my_lock"
\* among them, whose digests begin with 8 bytes that read as a negative int.
IdHighs == {0 - 2147483647 - 1, 0 - 2147483647, 0 - 65536, 0 - 1, 0, 1, 65535, 65536,
            2147483647}
IdHalves == {0, 1, 32768, 65535}
Hello == <<104, 101, 108, 108, 111>>
IdStrings == {Hello, <<>>, <<97>>, <<109, 121, 95, 108, 111, 99, 107>>, FuncName,
              <<233>>, <<8364>>}
IdInputs ==
    {LId(PyInt(hi, l1, l0)) : hi \in IdHighs, l1 \in IdHalves, l0 \in IdHalves}
      \cup {LStr(str) : str \in IdStrings}

\* pglock.advisory_id(lock_id) is called.
advisory_id_call(lock_id) ==
    /\ last' = [op |-> "advisory_id", arg |-> lock_id, ret |-> advisory_id(lock_id)]
    /\ sent' = <<>>
    /\ UNCHANGED <<tl, frames, exc, guc, txst, sp, held, pend, dec, timer, now, settings>>

\* One call, with any of the arguments.
NextIds == \E lock_id \in IdInputs : last.op = "none" /\ advisory_id_call(lock_id)

SpecIds == Init /\ [][NextIds]_vars

\* The 8 bytes, least significant first, of the 64-bit two's complement
\* number with the upper half classid and the lower half objid, both given
\* as Python ints.
KeyBytes(classid, objid) ==
    <<objid.lo[2] % 256, objid.lo[2] \div 256, objid.lo[1] % 256, objid.lo[1] \div 256,
      classid.lo[2] % 256, classid.lo[2] \div 256,
      classid.lo[1] % 256, classid.lo[1] \div 256>>

\* The pair ret is read from the first 8 bytes of digest, the sign with it.
DigestRead(ret, digest) ==
    /\ KeyBytes(ret[1], ret[2]) = SubSeq(digest, 1, 8)
    /\ ret[1].hi = (IF digest[8] >= 128 THEN 0 - 1 ELSE 0)
    /\ ret[2].hi = 0

\* C24: advisory_id of a string is (id >> 32, id & 0xFFFFFFFF) for the id
\* whose 8 bytes, least significant first and read as a signed number, are
\* the first 8 bytes of the SHA-256 digest of the string: the result depends
\* on the string alone. advisory_id(9223372036854775807) is
\* (2147483647, 4294967295) and advisory_id("hello") is
\* (245608543, 3125670444).
C24_AdvisoryIdOfString ==
    last.op = "advisory_id" =>
       /\ last.arg.kind = "str"
            => DigestRead(last.ret, sha256_digest(encode(last.arg.v)))
       /\ last.arg = LId(PyInt(2147483647, 65535, 65535)) =>
             last.ret = <<PyInt(0, 32767, 65535), PyInt(0, 65535, 65535)>>
       /\ last.arg = LStr(Hello) =>
             last.ret = <<PyInt(0, 3747, 45151), PyInt(0, 47693, 61996)>>

\* C24 witness: advisory_id("hello") has returned (245608543, 3125670444).
C24_Witness ==
    /\ last.op = "advisory_id"
    /\ last.arg = LStr(Hello)
    /\ last.ret = <<PyInt(0, 3747, 45151), PyInt(0, 47693, 61996)>>

\* C25: for every identifier of the signed 64-bit range, negative ones
\* included, advisory_id returns the pair pg_locks shows for the key: the
\* upper and the lower 32 bits of its two's complement form, each from 0 to
\* 2^32 - 1.
C25_PairMatchesBackend ==
    last.op = "advisory_id" =>
       /\ last.ret = pg_locks_id(_cast_lock_id(last.arg))
       /\ last.ret[1].hi = 0 /\ last.ret[2].hi = 0

----------------------------------------------------------------------------
(* Integer lock identifiers *)

\* The identifiers 0 and 1, on with-blocks and on decorated functions, in
\* the non-blocking variant.
KeyIds == {Small(0), Small(1)}
KeyLocks ==
    {advisory_init(LId(id), FALSE, FALSE, "default", Td(0), None, func) :
        id \in KeyIds, func \in BOOLEAN}

\* One thread enters with-blocks, calls decorated functions, and calls
\* acquire() and release() by hand, outside transactions and inside one.
NextKeys ==
    \/ \E ob \in KeyLocks :
          ~HasFrame("T1", "advisory") /\ advisory_enter("T1", FALSE, ob)
    \/ advisory_call("T1")
    \/ advisory_exit("T1")
    \/ \E ob \in KeyLocks : ~ob.func /\ advisory_acquire("T1", ob)
    \/ \E ob \in KeyLocks : ~ob.func /\ advisory_release("T1", ob)
    \/ frames["T1"] = <<>> /\ atomic_enter("T1", "default")
    \/ atomic_exit("T1")
    \/ py_catch("T1")

SpecKeys == Init /\ [][NextKeys]_vars

\* The statements of sent that take or release an advisory lock.
IsLockCall(st) == st.sql \in {"pg_try_advisory_lock", "pg_advisory_unlock"}

\* C26: an integer identifier, 0 included, is accepted by a with-block, by
\* a decorated function and by acquire(), and is the argument of the
\* acquire statement and of the release statement.
C26_IntegerIdsUnchanged ==
    [][\A ob \in KeyLocks :
          /\ (\/ advisory_enter("T1", FALSE, ob)
              \/ ~ob.func /\ advisory_acquire("T1", ob))
               => /\ exc'["T1"] # "ValueError"
                  /\ Len(SelectSeq(sent', IsLockCall)) = 1
                  /\ SelectSeq(sent', IsLockCall)[1].arg = ob.lock_id.v
          /\ (~ob.func /\ advisory_release("T1", ob))
               => /\ Len(SelectSeq(sent', IsLockCall)) = 1
                  /\ SelectSeq(sent', IsLockCall)[1].arg = ob.lock_id.v]_vars

----------------------------------------------------------------------------
(* The timeout argument of advisory and model *)

\* Omitted, zero, 100 ms and None (no limit).
WaitTimeouts == {_unset, Td(0), Td(100000), TNone}

\* T1: with pglock.advisory(1, timeout=..., side_effect=...): pass, and
\* pglock.model("auth.User", timeout=..., side_effect=...), returning and
\* raising.
WaitLocks ==
    {advisory_init(LId(Small(1)), FALSE, FALSE, "default", tmo, se, FALSE) :
        tmo \in WaitTimeouts, se \in {None, Raise}}
WaitModels ==
    {model_args({"auth_user"}, "ACCESS EXCLUSIVE", "default", tmo, se) :
        tmo \in WaitTimeouts, se \in {Return, Raise}}

\* with pglock.advisory(1, timeout=0):
BlockingTry == advisory_init(LId(Small(1)), FALSE, FALSE, "default", Td(0), None, FALSE)

\* T2 takes the advisory lock, or the lock on the table in a transaction,
\* and gives it up again; time passes while T1 waits. T1 makes its calls by themselves, inside
\* pglock.timeout(milliseconds=200) on either database, and inside
\* transaction.atomic().
NextWait ==
    \/ frames["T2"] = <<>> /\ advisory_enter("T2", FALSE, BlockingTry)
    \/ frames["T2"] = <<>> /\ atomic_enter("T2", "default")
    \/ HoldsRel("T2", "default") = {} /\ model("T2", BlockingLock)
    \/ \E a \in Aliases :
          frames["T1"] = <<>> /\ lock_timeout_enter("T1", a, Td(200000))
    \/ lock_timeout_exit("T1")
    \/ \E ob \in WaitLocks :
          ~HasFrame("T1", "advisory") /\ advisory_enter("T1", FALSE, ob)
    \/ \E m \in WaitModels :
          /\ HoldsRel("T1", "default") = {}
          /\ ~HasFrame("T1", "advisory")
          /\ model("T1", m)
    \/ /\ ~HasFrame("T1", "atomic")
       /\ ~HasFrame("T1", "advisory")
       /\ atomic_enter("T1", "default")
    \/ lock_granted("T1")
    \/ lock_wait_timeout("T1")
    \/ model_granted("T1")
    \/ model_wait_timeout("T1")
    \/ \E t \in Threads : advisory_exit(t)
    \/ \E t \in Threads : atomic_exit(t)
    \/ py_catch("T1")
    \/ pend["T1"].kind # "none" /\ Tick

SpecWait == Init /\ [][NextWait]_vars

IsSetting(st) == st.sql \in {"set_config", "restore"}
IsTry(st) == st.sql \in {"pg_try_advisory_lock", "LOCK TABLE NOWAIT"}
IsBlocking(st) == st.sql \in {"pg_advisory_lock", "LOCK TABLE"}

\* The request of a waiting call was made without a timeout argument.
WaitsAmbient(p) ==
    \/ p.kind = "advisory" /\ p.ob.timeout.kind = "unset"
    \/ p.kind = "model" /\ p.m.timeout.kind = "unset"

\* C27: a call of advisory.acquire or model with a timeout of zero sends
\* the non-blocking statement, and one without a timeout sends the blocking
\* statement, whose wait the lock_timeout in force limits; neither sends a
\* statement that sets lock_timeout, and both leave the lock_timeout of
\* the session and _timeout.value as they were.
C27_ZeroAndOmittedTimeout ==
    [][\A t \in Threads :
          /\ (/\ last'.op \in {"acquire", "model"} /\ last'.t = t
              /\ last'.nowait \/ ~last'.explicit)
               => /\ guc'[t] = guc[t] /\ tl'[t] = tl[t]
                  /\ SelectSeq(sent', IsSetting) = <<>>
                  /\ (last'.nowait /\ pend[t].kind = "none" /\ last'.out # "pre")
                       => /\ Len(SelectSeq(sent', IsTry)) = 1
                          /\ SelectSeq(sent', IsBlocking) = <<>>
                  /\ (last'.out = "LockNotAvailable" /\ ~last'.nowait)
                       => guc[t][last'.a] > 0
          /\ (pend[t].kind = "none" /\ WaitsAmbient(pend'[t]))
               => /\ guc'[t] = guc[t] /\ tl'[t] = tl[t]
                  /\ SelectSeq(sent', IsSetting) = <<>>
                  /\ Len(SelectSeq(sent', IsBlocking)) = 1
                  /\ SelectSeq(sent', IsTry) = <<>>
          /\ pend'[t].kind \in {"advisory", "model"}
               => ~(IF pend'[t].kind = "advisory"
                    THEN pend'[t].ob.nowait ELSE pend'[t].m.nowait)]_vars

\* Inside pglock.timeout(milliseconds=200) T1 asked for the table lock
\* without a timeout argument, waited 200 ms for T2 and got False; the
\* lock_timeout of the session and _timeout.value are the scope's.
C27_Witness ==
    /\ last.op = "model" /\ last.t = "T1" /\ last.se = Return
    /\ ~last.explicit /\ ~last.nowait /\ last.waited
    /\ last.out = "LockNotAvailable" /\ last.ret = "False"
    /\ last.deadline = last.since + 2
    /\ guc["T1"]["default"] = 200 /\ tl["T1"] = 200

\* The lock_timeout session (t, a) had before the call that is ending: the
\* one in force if the call begins in this step, else the one the timeout
\* scope of the waiting call found.
Ambient(t, a) == IF pend[t].kind = "none" THEN guc[t][a] ELSE pend[t].w.pre

\* A call of advisory.acquire or model with a timeout argument other than
\* zero ends for thread t in this step, returning True or False.
TimedCallReturns(t) ==
    /\ last'.op \in {"acquire", "model"} /\ last'.t = t
    /\ last'.explicit /\ ~last'.nowait
    /\ last'.ret \in {"True", "False"}

\* The timeout argument of the call that waits, in milliseconds.
WaitArg(p) ==
    lock_timeout_ms(IF p.kind = "advisory" THEN p.ob.timeout ELSE p.m.timeout)

\* Every pglock.timeout scope thread t has open is on database a.
ScopesOn(t, a) ==
    \A i \in 1..Len(frames[t]) : frames[t][i].k = "timeout" => frames[t][i].a = a

\* _timeout.value of thread t before the call that is ending.
ScopeBefore(t) == IF pend[t].kind = "none" THEN tl[t] ELSE pend[t].w.old

----------------------------------------------------------------------------
(* The sessions a firing acts on, when the blocker of T1 waits as well *)

\* T1 locks auth_group and then, inside pglock.prioritize, asks for
\* auth_user; T2 locks auth_user and then asks for auth_group. The
\* intervals are below the deadlock_timeout of the backend (1 s), so that
\* the timer fires before the backend looks for deadlocks.
LockGroup(tmo) ==
    model_args({"auth_group"}, "ACCESS EXCLUSIVE", "default", tmo, Raise)
LockUser(tmo) ==
    model_args({"auth_user"}, "ACCESS EXCLUSIVE", "default", tmo, Raise)
CycleSideEffects ==
    {Terminate, WithFilters(Terminate, "nothing"), WithFilters(Cancel, "all")}

HoldsTable(t, r) == \E l \in HoldsRel(t, "default") : l[1] = r

NextCycle ==
    \/ \E t \in Threads : frames[t] = <<>> /\ timer.pc = "idle" /\ atomic_enter(t, "default")
    \/ /\ ~HoldsTable("T1", "auth_group")
       /\ ~HasFrame("T1", "prioritize")
       /\ model("T1", LockGroup(Td(0)))
    \/ \E periodic \in BOOLEAN, se \in CycleSideEffects :
          /\ timer.pc = "idle"
          /\ prioritize_enter("T1", "default", Td(100000), periodic, _unset, se)
    \/ /\ HasFrame("T1", "prioritize")
       /\ ~HoldsTable("T1", "auth_user")
       /\ model("T1", LockUser(_unset))
    \/ prioritize_exit("T1")
    \/ ~HoldsTable("T2", "auth_user") /\ model("T2", LockUser(Td(0)))
    \/ /\ HoldsTable("T2", "auth_user")
       /\ ~HoldsTable("T2", "auth_group")
       /\ model("T2", LockGroup(_unset))
    \/ \E t \in Threads : model_granted(t)
    \/ \E t \in Threads : statement_killed(t)
    \/ \E t \in Threads : atomic_exit(t)
    \/ \E t \in Threads : frames[t] = <<>> /\ py_catch(t)
    \/ timer_run
    \/ timer_stop
    \/ fire_begin
    \/ fire_end
    \/ Tick

SpecCycle == Init /\ [][NextCycle]_vars

\* Nothing of thread t's sessions and statements changes in this step.
Spared(t) ==
    /\ txst'[t] = txst[t] /\ pend'[t] = pend[t]
    /\ held'[t] = held[t] /\ sp'[t] = sp[t] /\ guc'[t] = guc[t]

\* C29: a firing terminates or cancels only sessions that block the
\* protected session at that time, and none when the filters of the side
\* effect let no blocking session through.
C29_OnlyBlockersHandled ==
    [][fire_end
         => \A t \in Threads :
               (t \notin pg_blocking_pids(timer.pid, timer.a) \/ timer.se.filters # "all")
                 => Spared(t)]_vars

----------------------------------------------------------------------------
(* The end of the timer of pglock.prioritize *)

\* C30: when the prioritize block ends, with or without an exception, the
\* timer is cancelled; a cancelled timer begins no firing; and when the
\* block ends before the first interval is over the timer has not fired
\* and never does.
C30_TimerCancelledOnExit ==
    [][/\ last'.op = "prioritize" => timer'.finished
       /\ (timer.finished /\ timer.pc # "firing")
            => timer'.pc # "firing" /\ timer'.fired = timer.fired
       /\ (last'.op = "prioritize" /\ now < timer.start + timer.interval)
            => timer'.fired = 0 /\ timer'.pc # "firing"]_vars

\* The block of T1 has ended with the lock timeout of its LOCK TABLE, 100
\* ms after it began; the timer, set to 300 ms, is cancelled while it waits
\* and has not fired.
C30_Witness ==
    /\ last.op = "prioritize" /\ last.body = "LockNotAvailable"
    /\ timer.finished /\ timer.pc = "waiting" /\ timer.fired = 0
    /\ timer.interval = 3 /\ now < timer.due

----------------------------------------------------------------------------
(* The firings of one timer *)

\* C31: a firing begins only while the timer thread waits, and the n-th one
\* no earlier than n intervals after the timer was started; when a firing
\* has returned the periodic timer waits a full interval again and the
\* one-shot timer is done; a one-shot timer fires at most once.
C31_FiringsInSequence ==
    [][/\ (timer.pc # "firing" /\ timer'.pc = "firing")
            => /\ timer.pc = "waiting"
               /\ now >= timer.start + (timer.fired + 1) * timer.interval
       /\ (timer.pc = "firing" /\ timer'.pc # "firing")
            => /\ timer'.fired = timer.fired + 1
               /\ timer'.pc = (IF timer.periodic /\ timer'.exc \in {"none", "unset"}
                               THEN "waiting" ELSE "done")
               /\ timer'.pc = "waiting" => timer'.due = now + timer.interval
       /\ ~timer'.periodic => timer'.fired <= 1]_vars

\* The periodic timer, set to 100 ms, has just ended its second firing,
\* 200 ms or more after it was started.
C31_Witness ==
    /\ last.op = "fire" /\ timer.periodic /\ timer.interval = 1
    /\ timer.fired = 2 /\ timer.pc = "waiting"
    /\ now >= timer.start + 2

\* The periodic timer has kept the exception of a firing.
HasFailure(tm) == tm.periodic /\ tm.exc \notin {"none", "unset"}

\* C32: once the periodic timer has kept the exception of a firing it
\* fires no more and keeps that exception, and the end of the block raises
\* RuntimeError from it.
C32_FailureKeptOnce ==
    [][/\ HasFailure(timer)
            => /\ timer'.exc = timer.exc
               /\ timer'.fired = timer.fired
               /\ timer'.pc = "done"
       /\ (timer.pc = "firing" /\ HasFailure(timer')) => timer.exc = "none"
       /\ (last'.op = "prioritize" /\ HasFailure(timer))
            => last'.err = "RuntimeError" /\ last'.cause = timer.exc]_vars

\* The first firing of the periodic timer, set to 100 ms, has raised; two
\* more intervals have gone by without another firing, and the block ends
\* with RuntimeError from that exception.
C32_Witness ==
    /\ last.op = "prioritize" /\ last.err = "RuntimeError"
    /\ last.cause = "FieldError" /\ timer.exc = "FieldError"
    /\ timer.periodic /\ timer.interval = 1 /\ timer.fired = 1
    /\ now >= timer.start + 3

----------------------------------------------------------------------------
(* Calls of config.get *)

\* config.get(name, **overrides) is called.
config_get(name, overrides) ==
    /\ settings' = [settings EXCEPT
                      !.PGLOCK_CONFIGS = get(configs, name, overrides).configs]
    /\ last' = [op |-> "config_get", name |-> name, overrides |-> overrides,
                err |-> get(configs, name, overrides).err,
                ret |-> get(configs, name, overrides).ret]
    /\ sent' = <<>>
    /\ UNCHANGED <<tl, frames, exc, guc, txst, sp, held, pend, dec, timer, now>>

\* The names callers pass: None, the empty string, two names of the
\* settings and a name the settings do not have.
ConfigNames ==
    {NoneVal, PyStr(""), PyStr("bad-pid"), PyStr("kill-long-blocking"), PyStr("nope")}

\* The overrides callers pass: limit missing, 0 or 5, and blocking missing,
\* False or True.
ConfigOverrides ==
    {dict_update(lim, blk) :
        lim \in {EmptyDict, [limit |-> PyI(0)], [limit |-> PyI(5)]},
        blk \in {EmptyDict, [blocking |-> PyBool(FALSE)], [blocking |-> PyBool(TRUE)]}}

NextConfig ==
    \E name \in ConfigNames, overrides \in ConfigOverrides : config_get(name, overrides)

SpecConfig == Init /\ [][NextConfig]_vars

\* C40 as stated: whatever calls of config.get have been made, a call
\* config.get(name) without overrides returns, or raises, what it would
\* have on the configurations of the settings file.
C40_GetLeavesConfigs ==
    \A name \in ConfigNames :
        /\ get(configs, name, EmptyDict).err = get(PGLOCK_CONFIGS, name, EmptyDict).err
        /\ get(configs, name, EmptyDict).ret = get(PGLOCK_CONFIGS, name, EmptyDict).ret

----------------------------------------------------------------------------
(* The pglock management command (management/commands/pglock.py) *)

\* What the operator types is a sequence of code points.
CapY == 89
SmallY == 121
SmallE == 101
SmallS == 115
LongS == 383
NewLine == 10

\* A prefix match that does not look for the end of the answer.
at_end_mut(resp, i) == TRUE

\* "$" without re.MULTILINE: position i is the end of the string, or is
\* just before a newline that ends it.
at_end(resp, i) ==
    i = Len(resp) + 1 \/ (i = Len(resp) /\ resp[i] = NewLine)

\* re.IGNORECASE on a str pattern: the lower-case ASCII letter c of the
\* pattern matches itself, its capital and, for s, the long s.
ignorecase(c, x) == x = c \/ x = c - 32 \/ (c = SmallS /\ x = LongS)

\* re.match("^(y)(es)?$", resp, re.IGNORECASE) (pglock.py:52) finds a match.
re_match(resp) ==
    /\ Len(resp) >= 1
    /\ ignorecase(SmallY, resp[1])
    /\ \/ /\ Len(resp) >= 3
          /\ ignorecase(SmallE, resp[2])
          /\ ignorecase(SmallS, resp[3])
          /\ at_end(resp, 4)
       \/ at_end(resp, 2)

\* What the operator may type: nothing, y and yes in either case, and
\* answers that are neither. input() returns the line without its newline.
Answers ==
    {<<>>, <<CapY>>, <<SmallY, SmallE, SmallS>>, <<CapY, 69, 83>>,
     <<SmallY, SmallE, LongS>>, <<110, 111>>, <<SmallY, SmallE>>,
     <<SmallY, SmallE, SmallS, SmallS>>, <<32, SmallY>>}

\* pglock.py:37-46: _handle_user_input gets as far as calling input().
reads_input(cfg, num_locks) == num_locks # 0 /\ ~truthy(dict_get(cfg, "yes"))

\* _handle_user_input(cfg=cfg, num_locks=num_locks, stdout=stdout)
\* (pglock.py:33-56) when input(), if called, returns resp: what it
\* returns and what it writes to stdout.
_handle_user_input(cfg, num_locks, resp) ==
    IF num_locks = 0
    THEN [ret |-> FALSE,
          out |-> "No " \o (IF truthy(dict_get(cfg, "blocking")) THEN "blocking " ELSE "")
                    \o "queries to "
                    \o (IF truthy(dict_get(cfg, "cancel")) THEN "cancel" ELSE "terminate")
                    \o "."]
    ELSE IF reads_input(cfg, num_locks) /\ ~re_match(resp)
    THEN [ret |-> FALSE, out |-> "Aborting!"]
    ELSE [ret |-> TRUE, out |-> ""]

\* add_arguments (pglock.py:62-102): the options of a run with no pids.
Options(config, blocking, yes, cancel, terminate) ==
    [pids |-> PyList(<<>>), database |-> NoneVal, filters |-> NoneVal, on |-> NoneVal,
     attributes |-> NoneVal, blocking |-> PyBool(blocking), limit |-> NoneVal,
     expanded |-> PyBool(FALSE), config |-> config, yes |-> PyBool(yes),
     cancel |-> PyBool(cancel), terminate |-> PyBool(terminate)]

\* models.py:143-167 and pglock.py:110-126: the distinct activity_id, or
\* blocking_activity_id, of the lock rows on the default database. The
\* filters of the configurations in the settings (pid -1, a duration above
\* one minute) select no row of sessions that live for less than a second.
command_locks(cfg) ==
    IF truthy(dict_get(cfg, "filters")) THEN {}
    ELSE IF truthy(dict_get(cfg, "blocking"))
    THEN UNION {pg_blocking_pids(q, "default") :
                   q \in {q \in Threads : HasLockRows(q, "default")}}
    ELSE {t \in Threads : HasLockRows(t, "default")}

\* pglock.py:120-142 with the configuration cfg and the lock rows of the
\* sessions in locks; the operator types resp if asked.
handle_locks(call, cfg, locks, resp) ==
    IF ~_handle_user_input(cfg, Cardinality(locks), resp).ret
    THEN /\ last' = [call EXCEPT
                       !.manage = TRUE, !.num_locks = Cardinality(locks), !.resp = resp,
                       !.asked = reads_input(cfg, Cardinality(locks)),
                       !.out = _handle_user_input(cfg, Cardinality(locks), resp).out,
                       !.err = "SystemExit"]
         /\ UNCHANGED <<txst, held, sp, guc, pend>>
    ELSE /\ last' = [call EXCEPT
                       !.manage = TRUE, !.num_locks = Cardinality(locks), !.resp = resp,
                       !.asked = reads_input(cfg, Cardinality(locks)),
                       !.applied = TRUE, !.pids = locks,
                       !.out = (IF truthy(dict_get(cfg, "cancel"))
                                THEN "Canceled" ELSE "Terminated")
                                 \o (IF truthy(dict_get(cfg, "blocking"))
                                     THEN " blocking" ELSE "")]
         /\ Killed(IF truthy(dict_get(cfg, "cancel")) THEN Cancel ELSE Terminate, locks)

\* pglock.py:106-163 with what config.get made of the options.
handle_cfg(call, r) ==
    IF r.err # "none"
    THEN /\ last' = [call EXCEPT !.err = r.err]
         /\ UNCHANGED <<txst, held, sp, guc, pend>>
    ELSE IF ~(truthy(dict_get(r.ret, "cancel")) \/ truthy(dict_get(r.ret, "terminate")))
    THEN /\ last' = [call EXCEPT !.yes = truthy(dict_get(r.ret, "yes")), !.out = "rows"]
         /\ UNCHANGED <<txst, held, sp, guc, pend>>
    ELSE \E resp \in IF reads_input(r.ret, Cardinality(command_locks(r.ret)))
                     THEN Answers ELSE {<<>>} :
            handle_locks([call EXCEPT !.yes = truthy(dict_get(r.ret, "yes"))],
                         r.ret, command_locks(r.ret), resp)

\* Command.handle (pglock.py:104-163) for these options. config.get runs
\* at line 105 and again inside qset.config (models.py:157) with the same
\* arguments.
handle(options) ==
    /\ settings' = [settings EXCEPT
                      !.PGLOCK_CONFIGS =
                         get(get(configs, options.config, options).configs,
                             options.config, options).configs]
    /\ sent' = <<>>
    /\ UNCHANGED <<tl, frames, exc, dec, timer, now>>
    /\ handle_cfg([op |-> "pglock", options |-> options, resp |-> <<>>, yes |-> FALSE,
                   manage |-> FALSE, num_locks |-> 0, asked |-> FALSE,
                   err |-> "none", out |-> "", applied |-> FALSE, pids |-> {}],
                  get(get(configs, options.config, options).configs,
                      options.config, options))

\* The runs of the command: without a named configuration, with the one of
\* the settings that terminates blockers without asking, and with a name
\* the settings do not have.
CommandOptions ==
    {Options(NoneVal, blocking, yes, act = "cancel", act = "terminate") :
        blocking \in BOOLEAN, yes \in BOOLEAN, act \in {"cancel", "terminate", "list"}}
      \cup {Options(PyStr("kill-long-blocking"), FALSE, FALSE, FALSE, FALSE),
            Options(PyStr("nope"), FALSE, FALSE, FALSE, TRUE)}

\* T1 locks auth_user inside transaction.atomic() and T2, inside its own,
\* asks for the same lock and waits, while the command is run.
NextCommand ==
    \/ \E t \in Threads : frames[t] = <<>> /\ exc[t] = "none" /\ atomic_enter(t, "default")
    \/ /\ HasFrame("T1", "atomic")
       /\ ~HoldsTable("T1", "auth_user")
       /\ model("T1", LockUser(_unset))
    \/ /\ HasFrame("T2", "atomic")
       /\ HoldsTable("T1", "auth_user")
       /\ model("T2", LockUser(_unset))
    \/ model_granted("T2")
    \/ \E t \in Threads : statement_killed(t)
    \/ \E t \in Threads : atomic_exit(t)
    \/ \E t \in Threads : frames[t] = <<>> /\ py_catch(t)
    \/ \E options \in CommandOptions : handle(options)

SpecCommand == Init /\ [][NextCommand]_vars

\* The answer is y or yes when case is ignored: its case folding is one of
\* the two words.
casefold(x) == IF x \in 65..90 THEN x + 32 ELSE IF x = LongS THEN SmallS ELSE x
IsYes(resp) ==
    [i \in 1..Len(resp) |-> casefold(resp[i])]
        \in {<<SmallY>>, <<SmallY, SmallE, SmallS>>}

\* C33: a run of the command that is to cancel or terminate applies it
\* exactly when there is a matching lock and the yes option is set or the
\* answer is y or yes in any case; otherwise _handle_user_input writes a
\* message and returns False, the command exits, and no session is touched.
C33_ConfirmedOrNothing ==
    [][(last'.op = "pglock" /\ last'.manage)
         => /\ last'.applied
                <=> (last'.num_locks >= 1 /\ (last'.yes \/ IsYes(last'.resp)))
            /\ ~last'.applied
                => /\ last'.out \in {"Aborting!", "No queries to cancel.",
                                     "No queries to terminate.",
                                     "No blocking queries to cancel.",
                                     "No blocking queries to terminate."}
                   /\ last'.err = "SystemExit"
                   /\ \A t \in Threads : Spared(t)
            /\ last'.asked <=> (last'.num_locks >= 1 /\ ~last'.yes)]_vars

\* T2 waits for the lock T1 holds; the command, run with --blocking
\* --terminate and without --yes, found one blocking session, the operator
\* typed "no", and the command wrote "Aborting!" and exited: T1 still
\* holds its lock and T2 still waits.
C33_Witness ==
    /\ last.op = "pglock" /\ last.manage /\ ~last.applied
    /\ last.num_locks = 1 /\ last.asked /\ last.resp = <<110, 111>>
    /\ last.out = "Aborting!" /\ last.err = "SystemExit"
    /\ HoldsTable("T1", "auth_user") /\ pend["T2"].kind = "model"
    /\ txst["T1"]["default"] = "intrans"

----------------------------------------------------------------------------
(* Entries of an advisory with-block that fail *)

\* The atomic blocks thread t has open as with-blocks of its own on "default".
AtomicFrames(t) ==
    Len(SelectSeq(frames[t], LAMBDA f : f.k = "atomic" /\ f.a = "default"))

\* C34 as stated: when __enter__ of an advisory object raises, at once or
\* after its statement has waited, the session has as many transaction
\* levels open as before the entry: those of the atomic blocks the thread
\* is in.
C34_FailedEntryLeavesNoTransaction ==
    [][/\ ((\E ob \in XactLocks : advisory_enter("T1", FALSE, ob))
              /\ exc'["T1"] # "none")
            => Len(sp'["T1"]["default"]) = Len(sp["T1"]["default"])
       /\ ((lock_granted("T1") \/ lock_wait_timeout("T1")) /\ exc'["T1"] # "none")
            => Len(sp'["T1"]["default"]) = AtomicFrames("T1")]_vars

----------------------------------------------------------------------------
(* Concurrent calls of one decorated function *)

\* C35 as stated: the exit of a call of the decorated function sends an
\* unlock statement exactly when that call got the lock, and once every
\* call has returned no session holds the lock.
C35_CallsReleaseTheirOwn ==
    /\ [][\A t \in Threads :
             IsAdvisoryExit(t)
               => Len(SelectSeq(sent', IsUnlock)) = (IF Top(frames[t]).got THEN 1 ELSE 0)]_vars
    /\ []((\A t \in Threads : frames[t] = <<>> /\ pend[t].kind = "none")
            => \A t \in Threads, k \in Keys : held[t]["default"][k] = 0)

----------------------------------------------------------------------------
(* The end of a prioritize block and the start of its timer thread *)

\* C36 as stated: the end of a prioritize block raises something of its
\* own only for an exception the timer has kept, and a block that ends
\* before the first firing has begun ends with what its body ended with.
C36_StopFailsOnlyForFailure ==
    [][last'.op = "prioritize"
         => /\ last'.err # last'.body
                => last'.err = "RuntimeError" /\ timer.exc \notin {"none", "unset"}
            /\ (timer.fired = 0 /\ timer.pc # "firing") => last'.err = last'.body]_vars

----------------------------------------------------------------------------
(* The sessions a firing reaches *)

\* C37 as stated: a firing changes nothing of the session that
\* pglock.prioritize protects.
C37_ProtectedSessionSpared ==
    [][fire_end => Spared(timer.pid)]_vars

----------------------------------------------------------------------------
(* pglock.prioritize on either database *)

LockUserOn(a, tmo) ==
    model_args({"auth_user"}, "ACCESS EXCLUSIVE", a, tmo, Raise)

\* The alias of the transaction thread t is in.
AliasOf(t) == frames[t][1].a

\* T2 locks auth_user in a transaction on one of the two databases; T1, in
\* a transaction on one of them, enters pglock.prioritize with using set to
\* that database and asks for the lock on auth_user there.
NextUsing ==
    \/ \E t \in Threads, a \in Aliases :
          frames[t] = <<>> /\ timer.pc = "idle" /\ atomic_enter(t, a)
    \/ /\ frames["T2"] # <<>>
       /\ HoldsRel("T2", AliasOf("T2")) = {}
       /\ model("T2", LockUserOn(AliasOf("T2"), Td(0)))
    \/ \E periodic \in BOOLEAN, se \in {Terminate, Cancel} :
          /\ timer.pc = "idle"
          /\ Len(frames["T1"]) = 1
          /\ prioritize_enter("T1", AliasOf("T1"), Td(100000), periodic, _unset, se)
    \/ /\ HasFrame("T1", "prioritize")
       /\ HoldsRel("T1", AliasOf("T1")) = {}
       /\ model("T1", LockUserOn(AliasOf("T1"), _unset))
    \/ prioritize_exit("T1")
    \/ \E t \in Threads : model_granted(t)
    \/ \E t \in Threads : atomic_exit(t)
    \/ \E t \in Threads : frames[t] = <<>> /\ py_catch(t)
    \/ timer_run
    \/ timer_stop
    \/ fire_begin
    \/ fire_end
    \/ Tick

SpecUsing == Init /\ [][NextUsing]_vars

\* C38 as stated: a firing handles the sessions that block the protected
\* session on the database prioritize was given, and changes no session of
\* another database.
C38_FiringOnSameDatabase ==
    [][fire_end
         => /\ last'.ids = Filtered(timer.se, blocking_activity_ids(timer.pid, timer.a))
            /\ \A t \in Threads, a \in Aliases \ {timer.a} :
                  txst'[t][a] = txst[t][a] /\ held'[t][a] = held[t][a]
                    /\ sp'[t][a] = sp[t][a]]_vars

----------------------------------------------------------------------------
(* pglock.model on two tables *)

\* pglock.model("auth.User", "auth.Group", side_effect=pglock.Return) with
\* no timeout, a timeout of 0 and one of 100 ms, and under Raise.
BothTables ==
    {model_args({"auth_user", "auth_group"}, "ACCESS EXCLUSIVE", "default", tmo, se) :
        tmo \in {_unset, Td(0), Td(100000)}, se \in {Return, Raise}}

\* T2 locks one of the two tables in a transaction and ends it when it
\* likes; T1, in a transaction and possibly in an atomic block inside it,
\* asks for both tables.
NextBoth ==
    \/ frames["T2"] = <<>> /\ atomic_enter("T2", "default")
    \/ \E m \in {LockUser(Td(0)), LockGroup(Td(0))} :
          HoldsRel("T2", "default") = {} /\ model("T2", m)
    \/ Len(frames["T1"]) < MaxScopes /\ atomic_enter("T1", "default")
    \/ \E m \in BothTables : HoldsRel("T1", "default") = {} /\ model("T1", m)
    \/ model_advance("T1")
    \/ model_granted("T1")
    \/ model_wait_timeout("T1")
    \/ \E t \in Threads : atomic_exit(t)
    \/ \E t \in Threads : py_catch(t)
    \/ Tick

SpecBoth == Init /\ [][NextBoth]_vars

\* The call that has just ended is one of T1 for both tables under Return.
BothReturned(call) ==
    /\ call.op = "model" /\ call.t = "T1" /\ call.se = Return
    /\ call.ret \in {"True", "False"}

\* C39: when model() under Return, asked for two tables, returns False, the
\* session holds a lock on neither, whatever the statement had obtained
\* before it failed; when it returns True the session holds both in the
\* mode asked for; and the session loses such a lock only in a step that
\* ends an atomic block.
C39_AllOrNothing ==
    [][/\ (BothReturned(last') /\ last'.ret = "False")
            => HoldsRel("T1", "default")' = {}
       /\ (BothReturned(last') /\ last'.ret = "True")
            => HoldsRel("T1", "default")'
                 = {<<"auth_user", "ACCESS EXCLUSIVE">>, <<"auth_group", "ACCESS EXCLUSIVE">>}
       /\ (pend["T1"].kind = "none" /\ ~(HoldsRel("T1", "default") \subseteq
                                           HoldsRel("T1", "default")'))
            => Len(frames'["T1"]) < Len(frames["T1"])]_vars

\* T2 holds auth_group. The statement of T1 for both tables, under Return
\* with a timeout of 100 ms, locked auth_user, waited for auth_group and
\* timed out: model() has returned False and T1 holds neither table.
C39_Witness ==
    /\ BothReturned(last) /\ last.ret = "False"
    /\ last.waited /\ last.out = "LockNotAvailable"
    /\ HoldsTable("T2", "auth_group") /\ ~HoldsTable("T2", "auth_user")
    /\ HoldsRel("T1", "default") = {}
    /\ txst["T1"]["default"] = "intrans"
====
